---- MODULE Spec2Model ----
(***************************************************************************)
(* Host-side engine of the demand-loaded GPU texture cache                 *)
(* (hip_demand::DemandTextureLoader::Impl).                                *)
(*                                                                         *)
(* Every action is one critical section of the engine mutex (mutex_) or    *)
(* one lock-free step between two critical sections, so every state of the *)
(* model is a state in which the engine lock is free.                      *)
(***************************************************************************)
EXTENDS Integers, Sequences, FiniteSets, TLC

----------------------------------------------------------------------------
(* Bounds of the model *)

\* options_.maxTextures: capacity of textures_, h_textures_ and the device table
MaxTextures == 3
\* number of heap addresses at which the caller's reader objects can live
NumPtrs == 2
\* launchPrepare is not called any more once currentFrame_ has reached MaxFrame
MaxFrame == 2
\* at most this many host-to-device copies wait on the render stream
MaxPending == 2
\* number of tickets processRequestsAsync can issue in a run
MaxTickets == 2
NumWaiters == 2
MaxRequests == 2
NumLanes == 3
\* the side of the textures of the eviction scenario
S2Side == 32
\* number of threads that run loadTexture instruction by instruction
NumLoaders == 2
\* PinnedMemoryPool: maxPooledBuffers_, the addresses hipHostMalloc can return,
\* and the largest size a caller asks for
MaxPooledBuffers == 2
NumBuffers == 3
MaxBytes == 2
\* ThreadPool: number of worker threads and of tasks the owner submits
NumWorkers == 2
NumTasks == 2

----------------------------------------------------------------------------
(* Program constants and value domains *)

\* bits per word of the residency bitmap (texId / 32, texId % 32)
WordBits == 32

\* size_t arithmetic is modular.  TLC's integers are 32 bit wide, so the
\* modulus 2^64 is represented by 2^30, which is above every byte count and
\* every index the model reaches; SizeMax is numeric_limits<size_t>::max().
SizeMod == 2^30
SizeMax == SizeMod - 1
SizeT(x) == x % SizeMod

Min(a, b) == IF a <= b THEN a ELSE b
Max(a, b) == IF a >= b THEN a ELSE b

Ptrs == 1 .. NumPtrs
Workers == 1 .. NumWorkers
Tasks == 1 .. NumTasks
NoWorker == [pc |-> "start", task |-> 0]
NoCaller == [pc |-> "idle", next |-> 1, slept |-> FALSE]
TexIds == 0 .. (MaxTextures - 1)

\* sampler handles hipCreateTextureObject can return (never 0); the runtime may
\* hand out the value of a destroyed object again
TexObjs == {1, 2}

\* std::hash<std::string>: "a.png" and "c.png" collide, "b.png" does not
StdHash(s) == CASE s = "a.png" -> 1
                [] s = "b.png" -> 2
                [] s = "c.png" -> 1
                [] OTHER -> 3

\* LoaderError
Errors == {"Success", "InvalidTextureId", "MaxTexturesExceeded", "FileNotFound",
           "ImageLoadFailed", "OutOfMemory", "InvalidParameter", "HipError"}

\* EvictionPriority
Priorities == {"Normal", "Low", "High", "KeepResident"}

\* TextureDesc (the fields the engine branches on)
TextureDesc(prio, mips, maxMip) ==
    [evictionPriority |-> prio, generateMipmaps |-> mips, maxMipLevel |-> maxMip]

\* TextureMetadata as default-constructed by textures_.resize(maxTextures).
\* imageSource: address of the retained reader, 0 = nullptr.
\* cachedData: channel count of the retained pixel copy, 0 = nullptr.
\* array / mipmapArray: TRUE while the GPU array is allocated.
DefaultTexture ==
    [filename |-> "", imageSource |-> 0, desc |-> TextureDesc("Normal", TRUE, 0),
     texObj |-> 0, array |-> FALSE, mipmapArray |-> FALSE,
     width |-> 0, height |-> 0, channels |-> 0,
     hasMipmaps |-> FALSE, numMipLevels |-> 0, memoryUsage |-> 0,
     lastUsedFrame |-> 0, loadedFrame |-> 0,
     resident |-> FALSE, loading |-> FALSE,
     lastError |-> "Success", cachedData |-> 0]

\* TextureHandle
TextureHandle(id, valid, w, h, c, err) ==
    [id |-> id, valid |-> valid, width |-> w, height |-> h, channels |-> c, error |-> err]

\* no handle returned: the last operation was not a creation
NoHandle == TextureHandle(0, FALSE, 0, 0, 0, "Success")

\* std::unordered_map as a function on its key set
EmptyMap == [k \in {} |-> 0]
MapPut(m, k, v) == [x \in (DOMAIN m) \cup {k} |-> IF x = k THEN v ELSE m[x]]

----------------------------------------------------------------------------
(* Utils.h *)

\* calculateMipmapMemory(width, height, bytesPerPixel): the loop stops as soon
\* as either dimension has been halved to 0
RECURSIVE calculateMipmapMemory(_, _, _)
calculateMipmapMemory(width, height, bytesPerPixel) ==
    IF width > 0 /\ height > 0
    THEN width * height * bytesPerPixel
         + calculateMipmapMemory(width \div 2, height \div 2, bytesPerPixel)
    ELSE 0

\* calculateMipLevels(width, height)
RECURSIVE calculateMipLevels(_, _)
calculateMipLevels(width, height) ==
    IF width > 1 \/ height > 1
    THEN 1 + calculateMipLevels(Max(1, width \div 2), Max(1, height \div 2))
    ELSE 1

----------------------------------------------------------------------------
(* State *)

VARIABLES
    \* DemandTextureLoader::Impl, state guarded by mutex_
    textures_,                \* std::vector<TextureMetadata>, size MaxTextures
    nextTextureId_,
    imageSourceToTextureId_,  \* ImageSource*  -> texture id
    filenameHashToTextureId_, \* size_t (hash) -> texture id
    h_residentFlags_,         \* word index -> set of the bits that are 1
    h_textures_,              \* id -> sampler handle, 0 = not resident
    residentFlagsDirty_, texturesDirty_,
    dirtyResidentWordBegin_, dirtyResidentWordEnd_,
    dirtyTextureBegin_, dirtyTextureEnd_,
    currentFrame_,
    totalMemoryUsage_,
    options_,                 \* maxTextureMemory, enableEviction, minResidentFrames
    lastError_,
    aborted_,
    \* device memory and the render stream
    d_residentFlags, d_textures,
    streamQ,                  \* host-to-device copies enqueued and not yet executed
    flushed,                  \* the host mirrors as they were in the last launchPrepare
    \* the processRequests call and the abort call in progress
    pr,
    abortPc,
    \* the caller's reader objects: address -> [alive, hash]
    readers,
    \* observation of the run
    ret,                      \* value returned by the last operation
    lastOp,                   \* the last operation and the branch it took
    rdId,                     \* per live reader object: the id first returned for it
    observe,                  \* what this run records: "ops" (lastOp), "flush" (flushed), ...
    oob,                      \* TRUE once textures_ was indexed out of bounds
    \* the asynchronous request path
    inFlightAsync_,           \* std::atomic<int>
    destroying_,
    pools,                    \* threadPool_, pinnedMemoryPool_, hipEventPool_: "alive" or "reset"
    ac,                       \* the processRequestsAsync call in progress
    tasks_,                   \* TicketWorker::tasks_: ticket ids in queue order
    ticket,                   \* ticket id -> position of its task, see NoTicket
    dtorPc,                   \* position of ~Impl
    \* loadTexture calls followed instruction by instruction
    ld,                       \* thread -> [pc, tex]
    \* observation of an unload followed by a reload
    snap,
    \* Ticket::wait calls followed instruction by instruction
    wt,                       \* waiter -> [pc, k, event]
    tstream,                  \* ticket id -> TicketImpl::stream_
    recorded,                 \* waiter -> the streams its event was recorded on
    \* the request ring in device memory, the copy stream and the readback
    d_requestStats_,          \* RequestStats in device memory: count, overflow
    d_requests,               \* deviceContext_.requests: slot -> texture id
    lanes,                    \* device threads inside recordTextureRequest
    copyQ,                    \* requestCopyStream_: operations not yet executed
    evDone,                   \* the recorded events that have completed
    pinned,                   \* ticket id -> what was read back into its pinned buffers
    lastRequestCount_, lastRequestOverflow_,
    kernelOut,                \* frame -> the RequestStats its kernel left behind
    \* PinnedMemoryPool
    pool_,                    \* std::vector<PoolEntry>: [ptr, size] in push_back order
    handles,                  \* the live BufferHandle objects: [ptr, size]
    hostAllocs,               \* the addresses hipHostMalloc returned and hipHostFree has not freed
    \* ThreadPool
    tpTasks_,                 \* ThreadPool::tasks_: task ids in queue order
    activeWorkers_,
    stopping_,
    workers_,                 \* worker thread -> [pc, task]
    caller,                   \* the thread that owns the pool: [pc, next, slept]
    executed                  \* task id -> how often it ran to completion

regVars    == <<nextTextureId_, imageSourceToTextureId_, filenameHashToTextureId_>>
mirrorVars == <<h_residentFlags_, h_textures_>>
dirtyVars  == <<residentFlagsDirty_, texturesDirty_, dirtyResidentWordBegin_,
                dirtyResidentWordEnd_, dirtyTextureBegin_, dirtyTextureEnd_>>
devVars    == <<d_residentFlags, d_textures, streamQ, flushed>>
ctlVars    == <<pr, abortPc>>
envVars    == <<readers, rdId>>
asyncVars  == <<inFlightAsync_, destroying_, pools, ac, tasks_, ticket, dtorPc>>
waitVars   == <<wt, tstream, recorded>>
statVars   == <<lastRequestCount_, lastRequestOverflow_>>
ringVars   == <<d_requestStats_, d_requests, lanes, copyQ, evDone, pinned, kernelOut>>
utilVars   == <<pool_, handles, hostAllocs, tpTasks_, activeWorkers_, stopping_, workers_,
                 caller, executed>>
auxVars    == <<asyncVars, ld, snap, waitVars, statVars, ringVars, utilVars>>

vars == <<textures_, regVars, mirrorVars, dirtyVars, currentFrame_, totalMemoryUsage_,
          options_, lastError_, aborted_, devVars, ctlVars, envVars, ret, lastOp, oob, observe,
          auxVars>>

\* flagWords = (maxTextures + 31) / 32
flagWordCount_ == (MaxTextures + 31) \div 32
Words == 0 .. (flagWordCount_ - 1)

\* the operation, the branch it took, its integer argument or result (reader
\* address, texture id, number of textures loaded) and its path argument
Op(name, branch, arg, path) == [op |-> name, branch |-> branch, arg |-> arg, path |-> path]

TicketIds == 1 .. MaxTickets
Loaders == 1 .. NumLoaders

\* the position of a ticket's task: "none" (not issued), "queued" (in
\* TicketWorker::tasks_), "running" (the worker executes the task body),
\* "returned" (the body has returned), "done" (markDone has run)
NoTicket == "none"

\* a thread that is not inside loadTexture
NotLoading == [pc |-> "idle", tex |-> 0]

\* hipStream_t values: the null stream, a stream the caller created for
\* rendering, and the loader's requestCopyStream_
DefaultStream == 0
RenderStream == 1
requestCopyStream_ == 2
CallerStreams == {DefaultStream, RenderStream}

\* the request ring: options_.maxRequestsPerLaunch slots
Slots == 0 .. (MaxRequests - 1)
RequestStats(count, overflow) == [count |-> count, overflow |-> overflow]
\* pinned buffers nothing was copied into.  frame: the value of currentFrame_
\* when the call that took the buffers was made
NoReadback == [count |-> -1, overflow |-> -1, requests |-> [slot \in Slots |-> 0],
               frame |-> 0]
\* device threads of the running kernel
Lanes == 1 .. NumLanes
\* a frame whose kernel has not finished.  ids: what the lanes sampled
NoKernel == [count |-> -1, overflow |-> -1, requests |-> [slot \in Slots |-> 0],
             ids |-> <<>>]
NoLane == [pc |-> "idle", texId |-> 0, idx |-> 0]
\* the operation launchPrepare enqueues to reset the request statistics
Memset == [field |-> "requestStats"]
\* the other operations a stream holds besides the copies of launchPrepare
Kernel(frame, ids) == [field |-> "kernel", frame |-> frame, ids |-> ids]
Record(event) == [field |-> "record", event |-> event]
WaitEvent(event) == [field |-> "wait", event |-> event]
Readback(field, k, count) == [field |-> field, k |-> k, count |-> count]
\* the events processRequestsAsync takes from hipEventPool_ for ticket k
depsReady(k) == <<k, "depsReady">>
copyDone(k) == <<k, "copyDone">>
\* min(options_.maxRequestsPerLaunch, deviceContext.maxRequests), which are equal
copyCount == Min(MaxRequests, MaxRequests)
\* the ids the host takes from a readback: the first min(count, copyCount)
\* entries of the ring
RequestsOf(count, requests) ==
    [i \in 1 .. Min(count, copyCount) |-> requests[i - 1]]

\* threads that call Ticket::wait; k = 0 is a default-constructed Ticket
Waiters == 1 .. NumWaiters
NotWaiting == [pc |-> "idle", k |-> 0, event |-> FALSE]

----------------------------------------------------------------------------
(* The state guarded by mutex_ that loadTexture, destroyTexture and the dirty  *)
(* tracking helpers update, as one record, so that the helpers can be applied  *)
(* one after the other the way the code calls them.                            *)

Host ==
    [textures |-> textures_,
     h_residentFlags |-> h_residentFlags_, h_textures |-> h_textures_,
     residentFlagsDirty |-> residentFlagsDirty_, texturesDirty |-> texturesDirty_,
     dirtyResidentWordBegin |-> dirtyResidentWordBegin_,
     dirtyResidentWordEnd |-> dirtyResidentWordEnd_,
     dirtyTextureBegin |-> dirtyTextureBegin_, dirtyTextureEnd |-> dirtyTextureEnd_,
     totalMemoryUsage |-> totalMemoryUsage_, lastError |-> lastError_, oob |-> oob]

SetHost(S) ==
    /\ textures_' = S.textures
    /\ h_residentFlags_' = S.h_residentFlags
    /\ h_textures_' = S.h_textures
    /\ residentFlagsDirty_' = S.residentFlagsDirty
    /\ texturesDirty_' = S.texturesDirty
    /\ dirtyResidentWordBegin_' = S.dirtyResidentWordBegin
    /\ dirtyResidentWordEnd_' = S.dirtyResidentWordEnd
    /\ dirtyTextureBegin_' = S.dirtyTextureBegin
    /\ dirtyTextureEnd_' = S.dirtyTextureEnd
    /\ totalMemoryUsage_' = S.totalMemoryUsage
    /\ lastError_' = S.lastError
    /\ oob' = S.oob

----------------------------------------------------------------------------
(* Dirty tracking helpers *)

markAllDirty(S) ==
    [S EXCEPT !.residentFlagsDirty = TRUE, !.texturesDirty = TRUE,
              !.dirtyResidentWordBegin = 0,
              !.dirtyResidentWordEnd = IF flagWordCount_ # 0 THEN flagWordCount_ - 1 ELSE 0,
              !.dirtyTextureBegin = 0,
              !.dirtyTextureEnd = IF MaxTextures # 0 THEN MaxTextures - 1 ELSE 0]

clearDirtyLocked(S) ==
    [S EXCEPT !.residentFlagsDirty = FALSE, !.texturesDirty = FALSE,
              !.dirtyResidentWordBegin = SizeMax, !.dirtyResidentWordEnd = 0,
              !.dirtyTextureBegin = SizeMax, !.dirtyTextureEnd = 0]

markTextureDirtyLocked(S, texId) ==
    [S EXCEPT !.texturesDirty = TRUE,
              !.dirtyTextureBegin = Min(@, texId),
              !.dirtyTextureEnd = Max(@, texId)]

markResidentWordDirtyLocked(S, wordIdx) ==
    [S EXCEPT !.residentFlagsDirty = TRUE,
              !.dirtyResidentWordBegin = Min(@, wordIdx),
              !.dirtyResidentWordEnd = Max(@, wordIdx)]

----------------------------------------------------------------------------
(* Texture creation *)

tableFull_never(n) == FALSE
\* if (nextTextureId_ >= options_.maxTextures)
tableFull(n) == n >= MaxTextures

\* what every creation leaves alone
CreateFrame ==
    UNCHANGED <<mirrorVars, dirtyVars, currentFrame_, totalMemoryUsage_, options_,
                aborted_, devVars, ctlVars, readers, oob, observe, auxVars>>

\* createTexture(const std::string& filename, desc).  found, w, h, c: the result
\* of stbi_info on the file.
createTexture_filename(filename, desc, found, w, h, c) ==
    LET filenameHash == StdHash(filename)
        hit == filenameHash \in DOMAIN filenameHashToTextureId_
        existingId == filenameHashToTextureId_[filenameHash]
        existing == textures_[existingId]
        id == nextTextureId_
        info == [DefaultTexture EXCEPT
                    !.filename = filename, !.desc = desc,
                    !.width = IF found THEN w ELSE 0,
                    !.height = IF found THEN h ELSE 0,
                    !.channels = IF found THEN c ELSE 0,
                    !.lastError = IF found THEN "Success" ELSE "FileNotFound"]
    IN
    /\ CreateFrame
    /\ UNCHANGED <<imageSourceToTextureId_, rdId>>
    /\ IF hit /\ existing.filename = filename
       THEN \* same file already registered
            /\ ret' = TextureHandle(existingId, TRUE, existing.width, existing.height,
                                    existing.channels, "Success")
            /\ lastOp' = Op("createTexture(filename)", "reuse", 0, filename)
            /\ UNCHANGED <<textures_, nextTextureId_, filenameHashToTextureId_, lastError_>>
       ELSE IF tableFull(nextTextureId_)
       THEN /\ lastError_' = "MaxTexturesExceeded"
            /\ ret' = TextureHandle(0, FALSE, 0, 0, 0, "MaxTexturesExceeded")
            /\ lastOp' = Op("createTexture(filename)", "full", 0, filename)
            /\ UNCHANGED <<textures_, nextTextureId_, filenameHashToTextureId_>>
       ELSE /\ nextTextureId_' = id + 1
            /\ filenameHashToTextureId_' = MapPut(filenameHashToTextureId_, filenameHash, id)
            /\ textures_' = [textures_ EXCEPT ![id] = info]
            /\ lastError_' = "Success"
            /\ ret' = TextureHandle(id, TRUE, info.width, info.height, info.channels, "Success")
            /\ lastOp' = Op("createTexture(filename)",
                            IF found THEN "new" ELSE "new-unreadable", 0, filename)

\* createTexture(std::shared_ptr<ImageSource> imageSource, desc).  rawPtr = 0 is
\* the null pointer; opens, w, h, c: the outcome of imageSource->open(&texInfo).
createTexture_imageSource(rawPtr, desc, opens, w, h, c) ==
    LET contentHash == readers[rawPtr].hash
        ptrHit == rawPtr \in DOMAIN imageSourceToTextureId_
        hashHit == contentHash # 0 /\ contentHash \in DOMAIN filenameHashToTextureId_
        byPtr == imageSourceToTextureId_[rawPtr]
        byHash == filenameHashToTextureId_[contentHash]
        id == nextTextureId_
        info == [DefaultTexture EXCEPT
                    !.imageSource = rawPtr, !.desc = desc,
                    !.width = IF opens THEN w ELSE 0,
                    !.height = IF opens THEN h ELSE 0,
                    !.channels = IF opens THEN c ELSE 0,
                    !.lastError = IF opens THEN "Success" ELSE "ImageLoadFailed"]
        Seen(x) == IF rdId[rawPtr] = -1 THEN [rdId EXCEPT ![rawPtr] = x] ELSE rdId
    IN
    /\ CreateFrame
    /\ IF rawPtr = 0
       THEN /\ lastError_' = "InvalidParameter"
            /\ ret' = TextureHandle(0, FALSE, 0, 0, 0, "InvalidParameter")
            /\ lastOp' = Op("createTexture(imageSource)", "null", rawPtr, "")
            /\ UNCHANGED <<textures_, regVars, rdId>>
       ELSE IF ptrHit
       THEN \* first check: same ImageSource pointer already registered
            /\ ret' = TextureHandle(byPtr, TRUE, textures_[byPtr].width,
                                    textures_[byPtr].height, textures_[byPtr].channels,
                                    "Success")
            /\ lastOp' = Op("createTexture(imageSource)", "reuse-pointer", rawPtr, "")
            /\ rdId' = Seen(byPtr)
            /\ UNCHANGED <<textures_, regVars, lastError_>>
       ELSE IF hashHit
       THEN \* second check: content hash; the pointer is registered, not retained
            /\ imageSourceToTextureId_' = MapPut(imageSourceToTextureId_, rawPtr, byHash)
            /\ ret' = TextureHandle(byHash, TRUE, textures_[byHash].width,
                                    textures_[byHash].height, textures_[byHash].channels,
                                    "Success")
            /\ lastOp' = Op("createTexture(imageSource)", "reuse-hash", rawPtr, "")
            /\ rdId' = Seen(byHash)
            /\ UNCHANGED <<textures_, nextTextureId_, filenameHashToTextureId_, lastError_>>
       ELSE IF tableFull(nextTextureId_)
       THEN /\ lastError_' = "MaxTexturesExceeded"
            /\ ret' = TextureHandle(0, FALSE, 0, 0, 0, "MaxTexturesExceeded")
            /\ lastOp' = Op("createTexture(imageSource)", "full", rawPtr, "")
            /\ UNCHANGED <<textures_, regVars, rdId>>
       ELSE /\ nextTextureId_' = id + 1
            /\ imageSourceToTextureId_' = MapPut(imageSourceToTextureId_, rawPtr, id)
            /\ filenameHashToTextureId_' =
                   IF contentHash # 0
                   THEN MapPut(filenameHashToTextureId_, contentHash, id)
                   ELSE filenameHashToTextureId_
            /\ textures_' = [textures_ EXCEPT ![id] = info]
            /\ lastError_' = "Success"
            /\ ret' = TextureHandle(id, TRUE, info.width, info.height, info.channels, "Success")
            /\ lastOp' = Op("createTexture(imageSource)",
                            IF opens THEN "new" ELSE "new-unreadable", rawPtr, "")
            /\ rdId' = Seen(id)

\* createTextureFromMemory(data, width, height, channels, desc)
createTextureFromMemory(dataNull, width, height, channels, desc) ==
    LET id == nextTextureId_
        info == [DefaultTexture EXCEPT
                    !.filename = "", !.desc = desc, !.width = width, !.height = height,
                    !.channels = channels, !.cachedData = channels]
    IN
    /\ CreateFrame
    /\ UNCHANGED <<imageSourceToTextureId_, filenameHashToTextureId_, rdId>>
    /\ IF dataNull \/ width <= 0 \/ height <= 0 \/ channels <= 0
       THEN /\ lastError_' = "InvalidParameter"
            /\ ret' = TextureHandle(0, FALSE, 0, 0, 0, "InvalidParameter")
            /\ lastOp' = Op("createTextureFromMemory", "invalid", 0, "")
            /\ UNCHANGED <<textures_, nextTextureId_>>
       ELSE IF tableFull(nextTextureId_)
       THEN /\ lastError_' = "MaxTexturesExceeded"
            /\ ret' = TextureHandle(0, FALSE, 0, 0, 0, "MaxTexturesExceeded")
            /\ lastOp' = Op("createTextureFromMemory", "full", 0, "")
            /\ UNCHANGED <<textures_, nextTextureId_>>
       ELSE /\ nextTextureId_' = id + 1
            /\ textures_' = [textures_ EXCEPT ![id] = info]
            /\ lastError_' = "Success"
            /\ ret' = TextureHandle(id, TRUE, width, height, channels, "Success")
            /\ lastOp' = Op("createTextureFromMemory", "new", 0, "")

----------------------------------------------------------------------------
(* The caller's reader objects.  The engine keeps a shared_ptr only to the    *)
(* reader of a texture it allocated (info.imageSource); a reader that was     *)
(* matched by content hash is entered into imageSourceToTextureId_ by its raw *)
(* address only, so the caller's release of it destroys it and a later reader *)
(* can be constructed at the same address.                                    *)

NoReader == [alive |-> FALSE, hash |-> 0]

Retained(p) == \E i \in TexIds : textures_[i].imageSource = p

RegFrame ==
    UNCHANGED <<textures_, regVars, mirrorVars, dirtyVars, currentFrame_,
                totalMemoryUsage_, options_, lastError_, aborted_, devVars, ctlVars, oob,
                observe, auxVars>>

\* std::make_shared<...ImageSource>(...): a new reader whose getHash() is h
NewReader(p, h) ==
    /\ ~readers[p].alive
    /\ readers' = [readers EXCEPT ![p] = [alive |-> TRUE, hash |-> h]]
    /\ rdId' = [rdId EXCEPT ![p] = -1]
    /\ lastOp' = Op("NewReader", "", 0, "")
    /\ ret' = NoHandle
    /\ RegFrame

\* the caller drops its last reference to a reader the engine does not retain
DropReader(p) ==
    /\ readers[p].alive
    /\ ~Retained(p)
    /\ readers' = [readers EXCEPT ![p] = NoReader]
    /\ rdId' = [rdId EXCEPT ![p] = -1]
    /\ lastOp' = Op("DropReader", "", 0, "")
    /\ ret' = NoHandle
    /\ RegFrame

----------------------------------------------------------------------------
(* Unloading *)

\* what a read of textures_[texId] beyond the end of the vector can yield
JunkMetadata == [resident : BOOLEAN, memoryUsage : {0, 4}]
NoJunk == [resident |-> FALSE, memoryUsage |-> 0]

\* h_residentFlags_[wordIdx] &= ~(1u << bitIdx) and |= (1u << bitIdx); a word
\* index beyond flagWordCount_ is outside the pinned buffer
clearBit_keeps(flags, texId) == flags
clearBit(flags, texId) ==
    IF texId \div WordBits \in Words
    THEN [flags EXCEPT ![texId \div WordBits] = @ \ {texId % WordBits}]
    ELSE flags
setBit(flags, texId) ==
    IF texId \div WordBits \in Words
    THEN [flags EXCEPT ![texId \div WordBits] = @ \cup {texId % WordBits}]
    ELSE flags

\* destroyTexture(texId), called with mutex_ held.  hipOk: the frees succeed.
\* The code indexes textures_ and h_textures_ without a bounds check: for
\* texId >= maxTextures it reads junk metadata and, if the junk resident flag is
\* set, carries on with the junk values (the writes land outside the tables).
destroyTexture(S, texId, hipOk, junk) ==
    IF texId \notin TexIds
    THEN IF ~junk.resident
         THEN [S EXCEPT !.oob = TRUE]
         ELSE LET S1 == markResidentWordDirtyLocked(
                            markTextureDirtyLocked(
                                [S EXCEPT !.h_residentFlags = clearBit(@, texId)], texId),
                            texId \div WordBits)
              IN [S1 EXCEPT !.oob = TRUE,
                            !.totalMemoryUsage = SizeT(@ - junk.memoryUsage)]
    ELSE LET info == S.textures[texId] IN
         IF ~info.resident
         THEN S
         ELSE LET S1 == [S EXCEPT
                            !.lastError = IF hipOk THEN @ ELSE "HipError",
                            !.textures[texId].texObj = 0,
                            !.textures[texId].mipmapArray = FALSE,
                            !.textures[texId].array = FALSE,
                            !.textures[texId].resident = FALSE,
                            !.textures[texId].hasMipmaps = FALSE,
                            !.textures[texId].numMipLevels = 0,
                            !.h_textures[texId] = 0,
                            !.h_residentFlags = clearBit(@, texId)]
                  S2 == markResidentWordDirtyLocked(
                            markTextureDirtyLocked(S1, texId), texId \div WordBits)
              IN [S2 EXCEPT !.totalMemoryUsage = SizeT(@ - info.memoryUsage),
                            !.textures[texId].memoryUsage = 0]

\* for (i = 0; i < nextTextureId_; ++i) destroyTexture(i)
RECURSIVE destroyFrom(_, _, _)
destroyFrom(S, i, hipOk) ==
    IF i >= nextTextureId_ THEN S
    ELSE destroyFrom(destroyTexture(S, i, hipOk, NoJunk), i + 1, hipOk)

----------------------------------------------------------------------------
(* Eviction *)

\* the value of the enumerator itself: Normal = 0, Low = 1, High = 2
priorityScore_enumValue(evictionPriority) ==
    CASE evictionPriority = "Normal" -> 0
      [] evictionPriority = "Low" -> 1
      [] evictionPriority = "High" -> 2
      [] OTHER -> 3
\* priorityScore: Low evicted first, Normal second, High last
priorityScore(evictionPriority) ==
    CASE evictionPriority = "Low" -> 0
      [] evictionPriority = "Normal" -> 1
      [] evictionPriority = "High" -> 2
      [] OTHER -> 1

evictable_ignoresPin(tex) ==
    /\ tex.resident
    /\ ~((currentFrame_ - tex.loadedFrame) < options_.minResidentFrames)
\* the candidate filter of evictIfNeeded: resident, not KeepResident, and
\* resident for at least minResidentFrames frames
evictable(tex) ==
    /\ tex.resident
    /\ tex.desc.evictionPriority # "KeepResident"
    /\ ~((currentFrame_ - tex.loadedFrame) < options_.minResidentFrames)

\* operator< of std::tuple<int, uint32_t, uint32_t>
tupleLess(a, b) ==
    \/ a[1] < b[1]
    \/ a[1] = b[1] /\ a[2] < b[2]
    \/ a[1] = b[1] /\ a[2] = b[2] /\ a[3] < b[3]

\* the loop over the sorted evictionList
RECURSIVE evictLoop(_, _, _, _)
evictLoop(S, evictionList, targetMemory, hipOk) ==
    IF evictionList = {} \/ S.totalMemoryUsage <= targetMemory
    THEN S
    ELSE LET first == CHOOSE a \in evictionList :
                          \A b \in evictionList \ {a} : tupleLess(a, b)
         IN evictLoop(destroyTexture(S, first[3], hipOk, NoJunk),
                      evictionList \ {first}, targetMemory, hipOk)

\* evictIfNeeded(requiredMemory), called with mutex_ held
evictIfNeeded(S, requiredMemory, hipOk) ==
    IF options_.maxTextureMemory = 0
    THEN S
    ELSE IF SizeT(S.totalMemoryUsage + requiredMemory) <= options_.maxTextureMemory
    THEN S
    ELSE LET evictionList ==
                 {<<priorityScore(S.textures[i].desc.evictionPriority),
                    S.textures[i].lastUsedFrame, i>> :
                      i \in {j \in TexIds : j < nextTextureId_ /\ evictable(S.textures[j])}}
             targetMemory == SizeT(options_.maxTextureMemory - requiredMemory)
         IN evictLoop(S, evictionList, targetMemory, hipOk)

----------------------------------------------------------------------------
(* Operations on the residency state *)

\* the observation left by an operation that returns no handle
NoOp == Op("", "", 0, "")
Obs(name, branch, arg) ==
    /\ lastOp' = IF "ops" \in observe THEN Op(name, branch, arg, "") ELSE NoOp
    /\ ret' = NoHandle
    /\ UNCHANGED observe

\* what a run that observes reloads ("trip") remembers of the state in which a
\* resident texture was unloaded
NoSnap == [id |-> -1, resident |-> {}, total |-> 0, memoryUsage |-> 0]

\* unloadTexture(texId): lock, destroyTexture(texId)
unloadTexture(texId, hipOk, junk) ==
    /\ SetHost(destroyTexture(Host, texId, hipOk, junk))
    /\ Obs("unloadTexture", "", 0)
    /\ snap' = IF "trip" \in observe /\ texId \in TexIds /\ textures_[texId].resident
               THEN [id |-> texId,
                     resident |-> {i \in TexIds : textures_[i].resident},
                     total |-> totalMemoryUsage_,
                     memoryUsage |-> textures_[texId].memoryUsage]
               ELSE snap
    /\ UNCHANGED <<regVars, currentFrame_, options_, aborted_, devVars, ctlVars, envVars,
                   asyncVars, ld, waitVars, statVars, utilVars, ringVars>>

\* unloadAll()
unloadAll(hipOk) ==
    /\ SetHost(destroyFrom(Host, 0, hipOk))
    /\ Obs("unloadAll", "", 0)
    /\ UNCHANGED <<regVars, currentFrame_, options_, aborted_, devVars, ctlVars, envVars,
                   auxVars>>

\* updateEvictionPriority(texId, priority)
updateEvictionPriority(texId, priority) ==
    /\ textures_' = IF texId < nextTextureId_
                    THEN [textures_ EXCEPT ![texId].desc.evictionPriority = priority]
                    ELSE textures_
    /\ Obs("updateEvictionPriority", "", 0)
    /\ UNCHANGED <<regVars, mirrorVars, dirtyVars, currentFrame_, totalMemoryUsage_,
                   options_, lastError_, aborted_, devVars, ctlVars, envVars, oob, auxVars>>

\* enableEviction(enable)
enableEviction(enable) ==
    /\ options_' = [options_ EXCEPT !.enableEviction = enable]
    /\ Obs("enableEviction", "", 0)
    /\ UNCHANGED <<textures_, regVars, mirrorVars, dirtyVars, currentFrame_,
                   totalMemoryUsage_, lastError_, aborted_, devVars, ctlVars, envVars, oob,
                   auxVars>>

\* setMaxTextureMemory(bytes)
setMaxTextureMemory(bytes) ==
    /\ options_' = [options_ EXCEPT !.maxTextureMemory = bytes]
    /\ Obs("setMaxTextureMemory", "", 0)
    /\ UNCHANGED <<textures_, regVars, mirrorVars, dirtyVars, currentFrame_,
                   totalMemoryUsage_, lastError_, aborted_, devVars, ctlVars, envVars, oob,
                   auxVars>>

\* abort(), first part: aborted_.store(true)
abort_flag ==
    /\ abortPc = "idle"
    /\ aborted_' = TRUE
    /\ abortPc' = "waiting"
    /\ Obs("abort", "flag", 0)
    /\ UNCHANGED <<textures_, regVars, mirrorVars, dirtyVars, currentFrame_,
                   totalMemoryUsage_, options_, lastError_, devVars, pr, envVars, oob,
                   auxVars>>

\* abort(), second part: asyncCv_.wait until inFlightAsync_ == 0
abort_wait_noDrain ==
    /\ abortPc = "waiting"
    /\ abortPc' = "pools"
    /\ Obs("abort", "wait", 0)
    /\ UNCHANGED <<textures_, regVars, mirrorVars, dirtyVars, currentFrame_,
                   totalMemoryUsage_, options_, lastError_, aborted_, devVars, pr, envVars,
                   oob, auxVars>>
abort_wait ==
    /\ abortPc = "waiting"
    /\ inFlightAsync_ = 0
    /\ abortPc' = "pools"
    /\ Obs("abort", "wait", 0)
    /\ UNCHANGED <<textures_, regVars, mirrorVars, dirtyVars, currentFrame_,
                   totalMemoryUsage_, options_, lastError_, aborted_, devVars, pr, envVars,
                   oob, auxVars>>

\* the loads that run as tasks of threadPool_: ~ThreadPool runs the queued
\* tasks to their end and joins the workers
poolBusy == pr.active /\ pr.pooled /\ (pr.toLoad \cup pr.running) # {}

\* abort(), third part: threadPool_, pinnedMemoryPool_ and hipEventPool_ are reset
abort_pools ==
    /\ abortPc = "pools"
    /\ ~poolBusy
    /\ pools' = "reset"
    /\ abortPc' = "unloading"
    /\ Obs("abort", "pools", 0)
    /\ UNCHANGED <<textures_, regVars, mirrorVars, dirtyVars, currentFrame_,
                   totalMemoryUsage_, options_, lastError_, aborted_, devVars, pr, envVars,
                   oob, inFlightAsync_, destroying_, ac, tasks_, ticket, dtorPc, ld, snap, waitVars, statVars, utilVars, ringVars>>

\* abort(), last part: every texture is destroyed under the lock
abort_unload(hipOk) ==
    /\ abortPc = "unloading"
    /\ SetHost(destroyFrom(Host, 0, hipOk))
    /\ abortPc' = "done"
    /\ Obs("abort", "unload", 0)
    /\ UNCHANGED <<regVars, currentFrame_, options_, aborted_, devVars, pr, envVars,
                   auxVars>>

----------------------------------------------------------------------------
(* Request processing *)

\* no processRequests call in progress.  toLoad: the ids whose loadTexture has
\* not started yet; running: the ids this call holds the loading claim for
\* pooled: the loads run as tasks of threadPool_ (more than one texture to
\* load); by: 0 for a processRequests call, else the ticket whose task runs
Idle == [active |-> FALSE, toLoad |-> {}, running |-> {}, loaded |-> 0,
         pooled |-> FALSE, by |-> 0]

RECURSIVE SumOver(_, _)
SumOver(f, D) ==
    IF D = {} THEN 0
    ELSE LET x == CHOOSE y \in D : TRUE IN f[x] + SumOver(f, D \ {x})

\* the projected size processRequestsHost adds for a texture it schedules
estimate(info) ==
    IF info.width > 0 /\ info.height > 0
    THEN calculateMipmapMemory(info.width, info.height, 4)
    ELSE 0

\* the condition under which processRequestsHost calls evictIfNeeded
evictionRequested_ignoresSwitch(estimatedMemoryNeeded) ==
    options_.maxTextureMemory > 0 /\ estimatedMemoryNeeded > 0
evictionRequested(estimatedMemoryNeeded) ==
    options_.enableEviction /\ options_.maxTextureMemory > 0 /\ estimatedMemoryNeeded > 0

\* what the call records when it has scheduled its loads: the number of
\* textures its eviction pass destroyed
ObsPass(S) ==
    LET destroyed == {i \in TexIds : textures_[i].resident /\ ~S.textures[i].resident}
    IN /\ lastOp' = IF "ops" \in observe THEN Op("processRequests", "scheduled", 0, "")
                    ELSE IF "evict" \in observe
                    THEN Op("evictIfNeeded", "", Cardinality(destroyed), "")
                    ELSE NoOp
       /\ ret' = NoHandle
       /\ UNCHANGED observe

\* the ids of a set as a ring holds them when each is requested once, in
\* ascending order
RECURSIVE SeqOf(_)
SeqOf(D) ==
    IF D = {} THEN <<>>
    ELSE LET x == CHOOSE y \in D : \A z \in D : y <= z
         IN <<x>> \o SeqOf(D \ {x})

\* the loop of processRequestsHost over requests[i .. ]: an id that is
\* allocated and not resident goes to toLoad the first time it is met, and its
\* projected size is added to the estimate
NoScan == [uniqueRequests |-> {}, toLoad |-> <<>>, estimatedMemoryNeeded |-> 0]
\* uniqueRequests.insert(texId).second
firstOccurrence_always(acc, texId) == TRUE
firstOccurrence(acc, texId) == texId \notin acc.uniqueRequests
RECURSIVE scanRequests(_, _, _)
scanRequests(requests, i, acc) ==
    IF i > Len(requests) THEN acc
    ELSE LET texId == requests[i]
         IN IF texId < nextTextureId_ /\ ~textures_[texId].resident
               /\ firstOccurrence(acc, texId)
            THEN scanRequests(requests, i + 1,
                     [uniqueRequests |-> acc.uniqueRequests \cup {texId},
                      toLoad |-> Append(acc.toLoad, texId),
                      estimatedMemoryNeeded |->
                          SizeT(acc.estimatedMemoryNeeded + estimate(textures_[texId]))])
            ELSE scanRequests(requests, i + 1, acc)

\* processRequestsHost(requestCount, requests) up to the end of its locked
\* block: the filter, the estimate and the eviction pass.  requests: the
\* first requestCount entries of the ring; by: 0 when processRequests calls
\* it, else the ticket whose task calls it.
processRequestsHost(requests, hipOk, by) ==
    LET scan == scanRequests(requests, 1, NoScan)
        toLoad == {scan.toLoad[i] : i \in 1 .. Len(scan.toLoad)}
        estimatedMemoryNeeded == scan.estimatedMemoryNeeded
        S == IF evictionRequested(estimatedMemoryNeeded)
             THEN evictIfNeeded(Host, estimatedMemoryNeeded, hipOk)
             ELSE Host
    IN
    /\ SetHost(S)
    /\ pr' = [active |-> TRUE, toLoad |-> toLoad, running |-> {}, loaded |-> 0,
              pooled |-> Cardinality(toLoad) # 1 /\ pools = "alive", by |-> by]
    /\ ObsPass(S)

\* processRequests(stream, deviceContext) up to the end of the locked block of
\* processRequestsHost.  Where the request ring is followed, the call returns
\* from hipStreamSynchronize once the stream is empty, and stores the
\* statistics it read back.  requests: the ids read back from the device ring;
\* gpuOk: the readback and the stream synchronisation succeed.
processRequests(requests, gpuOk, hipOk) ==
    /\ ~pr.active
    /\ "ring" \in observe => streamQ = <<>>
    /\ IF "ring" \in observe /\ ~aborted_ /\ gpuOk
       THEN /\ lastRequestOverflow_' = (d_requestStats_.overflow # 0)
            /\ lastRequestCount_' = d_requestStats_.count
       ELSE UNCHANGED statVars
    /\ UNCHANGED <<regVars, currentFrame_, options_, aborted_, devVars, abortPc, envVars,
                   asyncVars, ld, snap, waitVars, ringVars, utilVars>>
    /\ IF aborted_
       THEN /\ Obs("processRequests", "aborted", 0)
            /\ UNCHANGED <<textures_, mirrorVars, dirtyVars, totalMemoryUsage_,
                           lastError_, pr, oob>>
       ELSE IF ~gpuOk
       THEN /\ lastError_' = "HipError"
            /\ Obs("processRequests", "hip-error", 0)
            /\ UNCHANGED <<textures_, mirrorVars, dirtyVars, totalMemoryUsage_, pr, oob>>
       ELSE IF requests = <<>>
       THEN /\ Obs("processRequests", "empty", 0)
            /\ UNCHANGED <<textures_, mirrorVars, dirtyVars, totalMemoryUsage_,
                           lastError_, pr, oob>>
       ELSE processRequestsHost(requests, hipOk, 0)

\* loadTexture(texId) up to the snapshot taken under the lock: the early exits
\* and the claim of the loading flag
loadTexture_claim(texId) ==
    /\ pr.active /\ texId \in pr.toLoad
    /\ IF aborted_ \/ textures_[texId].resident \/ textures_[texId].loading
       THEN /\ pr' = [pr EXCEPT !.toLoad = @ \ {texId}]
            /\ Obs("loadTexture", "skipped", 0)
            /\ UNCHANGED textures_
       ELSE /\ textures_' = [textures_ EXCEPT ![texId].loading = TRUE]
            /\ pr' = [pr EXCEPT !.toLoad = @ \ {texId}, !.running = @ \cup {texId}]
            /\ Obs("loadTexture", "claimed", 0)
    /\ UNCHANGED <<regVars, mirrorVars, dirtyVars, currentFrame_, totalMemoryUsage_,
                   options_, lastError_, aborted_, devVars, abortPc, envVars, oob, auxVars>>

useMipmaps(info) == info.desc.generateMipmaps /\ (info.width > 1 \/ info.height > 1)

\* the failures a load of this texture can end with
LoadFailures(info) ==
    {"HipError"}
    \cup (IF info.imageSource # 0 \/ info.filename # "" THEN {"ImageLoadFailed"} ELSE {})
    \cup (IF info.imageSource = 0 /\ info.filename = "" /\ info.cachedData = 0
          THEN {"InvalidParameter"} ELSE {})
    \cup (IF useMipmaps(info) THEN {"OutOfMemory"} ELSE {})

\* sampler handles of the textures that are alive
LiveObjs == {textures_[i].texObj : i \in TexIds} \ {0}

\* the publication at the end of a successful loadTexture (mutex_ held)
publish(S, texId, texObj) ==
    LET info == S.textures[texId]
        mips == useMipmaps(info)
        levels == calculateMipLevels(info.width, info.height)
        numLevels == IF info.desc.maxMipLevel > 0
                     THEN Min(levels, info.desc.maxMipLevel) ELSE levels
        memoryUsage == IF mips THEN calculateMipmapMemory(info.width, info.height, 4)
                       ELSE info.width * info.height * 4
        S1 == [S EXCEPT
                  !.textures[texId].texObj = texObj,
                  !.textures[texId].mipmapArray = mips,
                  !.textures[texId].array = ~mips,
                  !.textures[texId].hasMipmaps = mips,
                  !.textures[texId].numMipLevels = IF mips THEN numLevels ELSE 1,
                  !.textures[texId].memoryUsage = memoryUsage,
                  !.textures[texId].channels = 4,
                  !.h_textures[texId] = texObj,
                  !.h_residentFlags = setBit(@, texId)]
        S2 == markResidentWordDirtyLocked(
                  markTextureDirtyLocked(S1, texId), texId \div WordBits)
    IN [S2 EXCEPT !.textures[texId].resident = TRUE,
                  !.textures[texId].loading = FALSE,
                  !.textures[texId].lastUsedFrame = currentFrame_,
                  !.textures[texId].loadedFrame = currentFrame_,
                  !.totalMemoryUsage = SizeT(@ + memoryUsage)]

\* a failure return of loadTexture: loading cleared and the error recorded
\* under the lock; the partial GPU resources were freed before
failLoad_keepsClaim(S, texId, error) ==
    [S EXCEPT !.textures[texId].lastError = error]
failLoad(S, texId, error) ==
    [S EXCEPT !.textures[texId].loading = FALSE,
              !.textures[texId].lastError = error]

\* loadTexture(texId) from the decode to its return.  outcome: "ok" or the
\* error the load fails with; texObj: the handle hipCreateTextureObject returns.
loadTexture_finish(texId, outcome, texObj) ==
    /\ pr.active /\ texId \in pr.running
    /\ outcome \in {"ok"} \cup LoadFailures(textures_[texId])
    /\ texObj \notin LiveObjs \cup {0}
    /\ IF outcome = "ok"
       THEN /\ SetHost(publish(Host, texId, texObj))
            /\ pr' = [pr EXCEPT !.running = @ \ {texId}, !.loaded = @ + 1]
            /\ Obs("loadTexture", "published", 0)
       ELSE /\ SetHost(failLoad(Host, texId, outcome))
            /\ pr' = [pr EXCEPT !.running = @ \ {texId}]
            /\ Obs("loadTexture", "failed", 0)
    /\ UNCHANGED <<regVars, currentFrame_, options_, aborted_, devVars, abortPc, envVars,
                   auxVars>>

\* processRequestsHost returns loaded once every loadTexture has returned
processRequests_return ==
    /\ pr.active /\ pr.by = 0 /\ pr.toLoad = {} /\ pr.running = {}
    /\ pr' = Idle
    /\ Obs("processRequests", "return", pr.loaded)
    /\ snap' = NoSnap
    /\ UNCHANGED <<textures_, regVars, mirrorVars, dirtyVars, currentFrame_,
                   totalMemoryUsage_, options_, lastError_, aborted_, devVars, abortPc,
                   envVars, oob, asyncVars, ld, waitVars, statVars, utilVars, ringVars>>

----------------------------------------------------------------------------
(* Asynchronous request processing: processRequestsAsync on a caller thread,  *)
(* the ticket worker thread, and the destructor.  ac is the instruction the   *)
(* caller of processRequestsAsync executes next; ticket[k] is how far ticket  *)
(* k has come: "none", "queued", "started", "running", "ending", "returned",  *)
(* "done", "notified", "released".                                            *)

LoaderFrame ==
    UNCHANGED <<textures_, regVars, mirrorVars, dirtyVars, currentFrame_,
                totalMemoryUsage_, options_, lastError_, aborted_, devVars, ctlVars,
                envVars, destroying_, pools, dtorPc, ld, snap>>

AsyncFrame == LoaderFrame /\ UNCHANGED <<waitVars, statVars, utilVars, ringVars>>

\* the ticket the next committed call creates
FreeTicket == CHOOSE k \in TicketIds :
                  ticket[k] = NoTicket /\ \A j \in 1 .. (k - 1) : ticket[j] # NoTicket

\* processRequestsAsync, entry: inFlightAsync_.fetch_add(1) and the AsyncGuard
async_enter ==
    /\ ac = "idle" /\ dtorPc # "done"
    /\ \E k \in TicketIds : ticket[k] = NoTicket
    /\ inFlightAsync_' = inFlightAsync_ + 1
    /\ ac' = "checkDestroying"
    /\ Obs("processRequestsAsync", "enter", 0)
    /\ UNCHANGED <<tasks_, ticket, oob>>
    /\ AsyncFrame

\* if (destroying_.load()) return Ticket{}
async_checkDestroying ==
    /\ ac = "checkDestroying"
    /\ ac' = IF destroying_ THEN "guard" ELSE "checkAborted"
    /\ Obs("processRequestsAsync", "destroying", 0)
    /\ UNCHANGED <<inFlightAsync_, tasks_, ticket, oob>>
    /\ AsyncFrame

\* if (aborted_.load()) return Ticket{}
async_checkAborted_skipped ==
    /\ ac = "checkAborted"
    /\ ac' = "commit"
    /\ Obs("processRequestsAsync", "aborted", 0)
    /\ UNCHANGED <<inFlightAsync_, tasks_, ticket, oob>>
    /\ AsyncFrame
async_checkAborted ==
    /\ ac = "checkAborted"
    /\ ac' = IF aborted_ THEN "guard" ELSE "commit"
    /\ Obs("processRequestsAsync", "aborted", 0)
    /\ UNCHANGED <<inFlightAsync_, tasks_, ticket, oob>>
    /\ AsyncFrame

\* the rest of a call that goes ahead: buffers and events are taken from the
\* pools, the copies are enqueued, the guard is committed and the ticket is
\* created with its task queued for the ticket worker
\* stream: the stream the call was given, which createTicketImpl stores in
\* the ticket
async_commit(stream) ==
    /\ ac = "commit"
    /\ oob' = (oob \/ pools # "alive")
    /\ ticket' = [ticket EXCEPT ![FreeTicket] = "queued"]
    /\ tstream' = [tstream EXCEPT ![FreeTicket] = stream]
    /\ tasks_' = Append(tasks_, FreeTicket)
    /\ ac' = "idle"
    /\ Obs("processRequestsAsync", "ticket", FreeTicket)
    /\ IF "ring" \in observe
       THEN /\ pinned' = [pinned EXCEPT ![FreeTicket].count = 0,
                                         ![FreeTicket].overflow = 0,
                                         ![FreeTicket].frame = currentFrame_]
            /\ streamQ' = Append(streamQ, Record(depsReady(FreeTicket)))
            /\ copyQ' = copyQ \o <<WaitEvent(depsReady(FreeTicket)),
                                    Readback("count", FreeTicket, 1),
                                    Readback("overflow", FreeTicket, 1),
                                    Readback("requests", FreeTicket, copyCount),
                                    Record(copyDone(FreeTicket))>>
       ELSE UNCHANGED <<pinned, streamQ, copyQ>>
    /\ UNCHANGED <<inFlightAsync_, wt, recorded, statVars, utilVars, d_requestStats_, d_requests,
                   lanes, evDone, kernelOut>>
    /\ UNCHANGED <<textures_, regVars, mirrorVars, dirtyVars, currentFrame_,
                   totalMemoryUsage_, options_, lastError_, aborted_, d_residentFlags,
                   d_textures, flushed, ctlVars, envVars, destroying_, pools, dtorPc,
                   ld, snap>>

\* ~AsyncGuard of a call that returns an empty ticket: fetch_sub(1), notify_all
async_guard ==
    /\ ac = "guard"
    /\ inFlightAsync_' = inFlightAsync_ - 1
    /\ ac' = "idle"
    /\ Obs("processRequestsAsync", "empty", 0)
    /\ UNCHANGED <<tasks_, ticket, oob>>
    /\ AsyncFrame

\* the ticket worker is between two tasks
workerFree ==
    \A k \in TicketIds : ticket[k] \in {NoTicket, "queued", "released"}

\* the ticket worker pops the front task and starts its body: the copy event
\* is awaited (hipEventSynchronize(copyDone)) and both events go back to the
\* event pool
worker_take ==
    /\ tasks_ # <<>> /\ workerFree
    /\ "ring" \in observe => copyDone(Head(tasks_)) \in evDone
    /\ ticket' = [ticket EXCEPT ![Head(tasks_)] = "started"]
    /\ tasks_' = Tail(tasks_)
    /\ oob' = (oob \/ pools # "alive")
    /\ Obs("TicketWorker", "take", Head(tasks_))
    /\ UNCHANGED <<inFlightAsync_, ac>>
    /\ AsyncFrame

\* the body of the task: nothing to do when the loader is being destroyed or
\* the ring is empty, else processRequestsHost on the ids read back
worker_body(k, requests) ==
    /\ ticket[k] = "started"
    /\ IF destroying_ \/ requests = <<>>
       THEN /\ ticket' = [ticket EXCEPT ![k] = "ending"]
            /\ Obs("TicketWorker", "skip", k)
            /\ UNCHANGED <<textures_, mirrorVars, dirtyVars, totalMemoryUsage_, lastError_,
                           oob, pr>>
       ELSE /\ ~pr.active
            /\ ticket' = [ticket EXCEPT ![k] = "running"]
            /\ processRequestsHost(requests, TRUE, k)
    /\ IF "ring" \in observe /\ ~destroying_
       THEN /\ lastRequestOverflow_' = (pinned[k].overflow # 0)
            /\ lastRequestCount_' = pinned[k].count
       ELSE UNCHANGED statVars
    /\ UNCHANGED <<regVars, currentFrame_, options_, aborted_, devVars, abortPc, envVars,
                   inFlightAsync_, destroying_, pools, ac, tasks_, dtorPc, ld, snap,
                   waitVars, ringVars, utilVars>>

\* processRequestsHost returns to the task once every loadTexture has returned
worker_hostReturn(k) ==
    /\ ticket[k] = "running"
    /\ pr.active /\ pr.by = k /\ pr.toLoad = {} /\ pr.running = {}
    /\ pr' = Idle
    /\ ticket' = [ticket EXCEPT ![k] = "ending"]
    /\ Obs("TicketWorker", "return", pr.loaded)
    /\ UNCHANGED <<textures_, regVars, mirrorVars, dirtyVars, currentFrame_,
                   totalMemoryUsage_, options_, lastError_, aborted_, devVars, abortPc,
                   envVars, oob, inFlightAsync_, destroying_, pools, ac, tasks_, dtorPc,
                   ld, snap, waitVars, statVars, utilVars, ringVars>>

\* ~InFlightGuard at the end of the body: fetch_sub(1), notify_all
worker_guard(k) ==
    /\ ticket[k] = "ending"
    /\ inFlightAsync_' = inFlightAsync_ - 1
    /\ ticket' = [ticket EXCEPT ![k] = "returned"]
    /\ Obs("TicketWorker", "guard", k)
    /\ UNCHANGED <<tasks_, ac, oob>>
    /\ AsyncFrame

\* where the ticket worker calls markDone
bodyReturned_orStarted(position) == position \in {"started", "returned"}
bodyReturned(position) == position = "returned"

\* TicketImpl::markDone, first statement: done_.store(true), mutex_ not held
worker_markDone(k) ==
    /\ bodyReturned(ticket[k])
    /\ ticket' = [ticket EXCEPT ![k] = "done"]
    /\ Obs("TicketImpl::markDone", "", k)
    /\ UNCHANGED <<inFlightAsync_, tasks_, ac, oob>>
    /\ AsyncFrame

\* TicketImpl::markDone, second statement: cv_.notify_all() wakes the threads
\* that are blocked on cv_ at this moment
worker_notify(k) ==
    /\ ticket[k] = "done"
    /\ ticket' = [ticket EXCEPT ![k] = "notified"]
    /\ wt' = [w \in Waiters |->
                 IF wt[w].pc = "blocked" /\ wt[w].k = k
                 THEN [wt[w] EXCEPT !.pc = "woken"] ELSE wt[w]]
    /\ Obs("TicketImpl::markDone", "notify", k)
    /\ UNCHANGED <<inFlightAsync_, tasks_, ac, oob, tstream, recorded, statVars, utilVars, ringVars>>
    /\ LoaderFrame

\* end of the worker's loop iteration: the task object is destroyed, and with
\* it the pinned buffers it holds, which go back to pinnedMemoryPool_
worker_release(k) ==
    /\ ticket[k] = "notified"
    /\ ticket' = [ticket EXCEPT ![k] = "released"]
    /\ oob' = (oob \/ pools # "alive")
    /\ Obs("TicketWorker", "release", k)
    /\ UNCHANGED <<inFlightAsync_, tasks_, ac>>
    /\ AsyncFrame

\* TicketImpl: done_, numTasksRemaining
done_(k) == ticket[k] \in {"done", "notified", "released"}
numTasksRemaining(k) == IF done_(k) THEN 0 ELSE 1

\* Ticket::wait returns: cv_.wait(lock, done_)
Ticket_wait(k) ==
    /\ ticket[k] # NoTicket
    /\ done_(k)
    /\ Obs("Ticket::wait", "", k)
    /\ UNCHANGED <<inFlightAsync_, tasks_, ticket, ac, oob>>
    /\ AsyncFrame

\* Ticket::wait followed statement by statement.  A waiter holds
\* TicketImpl::mutex_ from its lock to the moment it blocks on cv_ or returns.
mutexHeld(k) == \E w \in Waiters : wt[w].k = k /\ wt[w].pc \in {"check", "toBlock"}

WaitFrame ==
    /\ UNCHANGED <<inFlightAsync_, tasks_, ticket, ac, oob, tstream, statVars, utilVars, ringVars>>
    /\ LoaderFrame

\* Ticket::wait(event) on a default-constructed Ticket: impl_ is null
wait_empty(w, event) ==
    /\ wt[w].pc = "idle"
    /\ wt' = [wt EXCEPT ![w] = [pc |-> "returned", k |-> 0, event |-> event]]
    /\ Obs("Ticket::wait", "empty", 0)
    /\ UNCHANGED recorded
    /\ WaitFrame

\* TicketImpl::wait(event): std::unique_lock lock(mutex_)
wait_lock(w, k, event) ==
    /\ wt[w].pc = "idle"
    /\ ticket[k] # NoTicket /\ ~mutexHeld(k)
    /\ wt' = [wt EXCEPT ![w] = [pc |-> "check", k |-> k, event |-> event]]
    /\ Obs("Ticket::wait", "lock", k)
    /\ UNCHANGED recorded
    /\ WaitFrame

\* what wait does with the event once the predicate holds:
\* if (event && stream_) hipEventRecord(*event, stream_)
recordEvent(w) ==
    IF wt[w].event /\ tstream[wt[w].k] # 0
    THEN [recorded EXCEPT ![w] = Append(@, tstream[wt[w].k])]
    ELSE recorded

\* cv_.wait(lock, pred): the predicate done_.load() is evaluated with mutex_
\* held; when it holds the event is recorded and wait returns
wait_check(w) ==
    /\ wt[w].pc = "check"
    /\ IF done_(wt[w].k)
       THEN /\ recorded' = recordEvent(w)
            /\ wt' = [wt EXCEPT ![w].pc = "returned"]
       ELSE /\ wt' = [wt EXCEPT ![w].pc = "toBlock"]
            /\ UNCHANGED recorded
    /\ Obs("Ticket::wait", "check", wt[w].k)
    /\ WaitFrame

\* cv_.wait(lock): mutex_ is released and the thread blocks on cv_
wait_block(w) ==
    /\ wt[w].pc = "toBlock"
    /\ wt' = [wt EXCEPT ![w].pc = "blocked"]
    /\ Obs("Ticket::wait", "block", wt[w].k)
    /\ UNCHANGED recorded
    /\ WaitFrame

\* a notified thread takes mutex_ again and re-evaluates the predicate
wait_wake(w) ==
    /\ wt[w].pc = "woken"
    /\ ~mutexHeld(wt[w].k)
    /\ wt' = [wt EXCEPT ![w].pc = "check"]
    /\ Obs("Ticket::wait", "wake", wt[w].k)
    /\ UNCHANGED recorded
    /\ WaitFrame

DtorFrame ==
    UNCHANGED <<regVars, currentFrame_, options_, aborted_, devVars, ctlVars, envVars,
                inFlightAsync_, ac, tasks_, ticket, ld, snap, waitVars, statVars, utilVars, ringVars>>

\* ~Impl, first part: destroying_.store(true)
dtor_flag ==
    /\ dtorPc = "idle"
    /\ destroying_' = TRUE
    /\ dtorPc' = "waiting"
    /\ Obs("~Impl", "flag", 0)
    /\ UNCHANGED <<textures_, mirrorVars, dirtyVars, totalMemoryUsage_, lastError_, pools,
                   oob>>
    /\ DtorFrame

\* ~Impl, second part: asyncCv_.wait until inFlightAsync_ == 0
dtor_wait ==
    /\ dtorPc = "waiting"
    /\ inFlightAsync_ = 0
    /\ dtorPc' = "pools"
    /\ Obs("~Impl", "wait", 0)
    /\ UNCHANGED <<textures_, mirrorVars, dirtyVars, totalMemoryUsage_, lastError_,
                   destroying_, pools, oob>>
    /\ DtorFrame

\* ~Impl, third part: threadPool_, pinnedMemoryPool_ and hipEventPool_ are reset
dtor_pools ==
    /\ dtorPc = "pools"
    /\ ~poolBusy
    /\ pools' = "reset"
    /\ dtorPc' = "unloading"
    /\ Obs("~Impl", "pools", 0)
    /\ UNCHANGED <<textures_, mirrorVars, dirtyVars, totalMemoryUsage_, lastError_,
                   destroying_, oob>>
    /\ DtorFrame

\* ~Impl, last part: unloadAll() and the buffers are freed
dtor_unload ==
    /\ dtorPc = "unloading"
    /\ SetHost(destroyFrom(Host, 0, TRUE))
    /\ dtorPc' = "done"
    /\ Obs("~Impl", "unload", 0)
    /\ UNCHANGED <<destroying_, pools>>
    /\ DtorFrame

----------------------------------------------------------------------------
(* loadTexture followed instruction by instruction, for the threads that can  *)
(* run it at the same time: pool workers, a processRequests caller and the    *)
(* ticket worker.  ld[t].pc is the instruction thread t executes next.        *)

LoadFrame ==
    UNCHANGED <<regVars, currentFrame_, options_, aborted_, devVars, ctlVars, envVars,
                asyncVars, snap, waitVars, statVars, utilVars, ringVars>>

LoadRead(t, pc) ==
    /\ ld[t].pc = pc
    /\ UNCHANGED <<textures_, mirrorVars, dirtyVars, totalMemoryUsage_, lastError_, oob>>
    /\ LoadFrame

\* entry: if (aborted_.load()) return false
load_call(t, texId) ==
    /\ LoadRead(t, "idle")
    /\ texId < nextTextureId_
    /\ ld' = [ld EXCEPT ![t] = IF aborted_ THEN NotLoading
                                ELSE [pc |-> "readResident", tex |-> texId]]
    /\ Obs("loadTexture", "call", 0)

\* if (info.resident.load() || ...) return false
load_readResident(t) ==
    /\ LoadRead(t, "readResident")
    /\ ld' = [ld EXCEPT ![t] = IF textures_[ld[t].tex].resident THEN NotLoading
                                ELSE [@ EXCEPT !.pc = "readLoading"]]
    /\ Obs("loadTexture", "readResident", 0)

\* if (... || info.loading.load()) return false
load_readLoading(t) ==
    /\ LoadRead(t, "readLoading")
    /\ ld' = [ld EXCEPT ![t] = IF textures_[ld[t].tex].loading THEN NotLoading
                                ELSE [@ EXCEPT !.pc = "cas"]]
    /\ Obs("loadTexture", "readLoading", 0)

\* a plain store in place of the compare-exchange
load_cas_store(t) ==
    /\ ld[t].pc = "cas"
    /\ textures_' = [textures_ EXCEPT ![ld[t].tex].loading = TRUE]
    /\ ld' = [ld EXCEPT ![t].pc = "snapshot"]
    /\ Obs("loadTexture", "cas", 0)
    /\ UNCHANGED <<mirrorVars, dirtyVars, totalMemoryUsage_, lastError_, oob>>
    /\ LoadFrame
\* if (!info.loading.compare_exchange_strong(expected = false, true)) return false
load_cas(t) ==
    /\ ld[t].pc = "cas"
    /\ IF textures_[ld[t].tex].loading
       THEN /\ ld' = [ld EXCEPT ![t] = NotLoading]
            /\ UNCHANGED textures_
       ELSE /\ textures_' = [textures_ EXCEPT ![ld[t].tex].loading = TRUE]
            /\ ld' = [ld EXCEPT ![t].pc = "snapshot"]
    /\ Obs("loadTexture", "cas", 0)
    /\ UNCHANGED <<mirrorVars, dirtyVars, totalMemoryUsage_, lastError_, oob>>
    /\ LoadFrame

\* lock; if (info.resident.load()) { loading = false; return false; } snapshot
\* of the descriptor; unlock
load_snapshot(t) ==
    /\ ld[t].pc = "snapshot"
    /\ IF textures_[ld[t].tex].resident
       THEN /\ textures_' = [textures_ EXCEPT ![ld[t].tex].loading = FALSE]
            /\ ld' = [ld EXCEPT ![t] = NotLoading]
       ELSE /\ ld' = [ld EXCEPT ![t].pc = "work"]
            /\ UNCHANGED textures_
    /\ Obs("loadTexture", "snapshot", 0)
    /\ UNCHANGED <<mirrorVars, dirtyVars, totalMemoryUsage_, lastError_, oob>>
    /\ LoadFrame

\* decode, allocation and upload without the lock, then either the failure
\* return or the publication under the lock
load_end(t, outcome, texObj) ==
    /\ ld[t].pc = "work"
    /\ outcome \in {"ok"} \cup LoadFailures(textures_[ld[t].tex])
    /\ texObj \notin LiveObjs \cup {0}
    /\ SetHost(IF outcome = "ok" THEN publish(Host, ld[t].tex, texObj)
               ELSE failLoad(Host, ld[t].tex, outcome))
    /\ ld' = [ld EXCEPT ![t] = NotLoading]
    /\ Obs("loadTexture", "end", 0)
    /\ LoadFrame

----------------------------------------------------------------------------
(* Frame preparation and the render stream *)

NotFlushed == [valid |-> FALSE, residentFlags |-> [w \in Words |-> {}],
               textures |-> [i \in TexIds |-> 0]]

GpuOutcomes == {"ok", "flagsCopyFails", "texturesCopyFails", "memsetFails"}

\* the number of elements launchPrepare copies for a dirty interval:
\* std::min(capacity - begin, end - begin + 1)
copyLength_toCapacity(capacity, begin, end) == capacity - begin
copyLength(capacity, begin, end) == Min(capacity - begin, end - begin + 1)

\* launchPrepare(stream).  gpu: which of the enqueue calls fails, if any.
\* The reset of d_requestStats_ is enqueued where the request ring is followed.
\* h_residentFlags_ and h_textures_ are pinned (hipHostMalloc), so an enqueued
\* hipMemcpyAsync reads them when the stream executes it: an entry of streamQ
\* holds the range only.
\* a run that observes "frames" goes one frame further than the others
FrameLimit == IF "frames" \in observe THEN MaxFrame + 1 ELSE MaxFrame

launchPrepare(gpu) ==
    LET copyFlags == /\ residentFlagsDirty_
                     /\ dirtyResidentWordBegin_ < flagWordCount_
                     /\ dirtyResidentWordBegin_ <= dirtyResidentWordEnd_
        flagsCopy == [field |-> "residentFlags", begin |-> dirtyResidentWordBegin_,
                      count |-> copyLength(flagWordCount_, dirtyResidentWordBegin_,
                                           dirtyResidentWordEnd_)]
        copyTextures == /\ texturesDirty_
                        /\ dirtyTextureBegin_ < MaxTextures
                        /\ dirtyTextureBegin_ <= dirtyTextureEnd_
        texturesCopy == [field |-> "textures", begin |-> dirtyTextureBegin_,
                         count |-> copyLength(MaxTextures, dirtyTextureBegin_,
                                              dirtyTextureEnd_)]
        q1 == IF copyFlags /\ gpu # "flagsCopyFails"
              THEN Append(streamQ, flagsCopy) ELSE streamQ
        q2 == IF copyTextures /\ gpu \notin {"flagsCopyFails", "texturesCopyFails"}
              THEN Append(q1, texturesCopy) ELSE q1
        returnsEarly == gpu \in {"flagsCopyFails", "texturesCopyFails"}
        q3 == IF "ring" \in observe /\ gpu = "ok" THEN Append(q2, Memset) ELSE q2
    IN
    /\ gpu \in GpuOutcomes
    /\ gpu = "flagsCopyFails" => copyFlags
    /\ gpu = "texturesCopyFails" => copyTextures
    /\ currentFrame_ < FrameLimit
    /\ Len(q2) <= MaxPending
    /\ streamQ' = q3
    /\ SetHost(LET S == IF gpu = "ok" THEN Host ELSE [Host EXCEPT !.lastError = "HipError"]
               IN IF returnsEarly THEN S ELSE clearDirtyLocked(S))
    /\ currentFrame_' = IF gpu = "ok" THEN currentFrame_ + 1 ELSE currentFrame_
    /\ flushed' = IF returnsEarly \/ "flush" \notin observe THEN NotFlushed
                  ELSE [valid |-> TRUE, residentFlags |-> h_residentFlags_,
                        textures |-> h_textures_]
    /\ Obs("launchPrepare", gpu, 0)
    /\ UNCHANGED <<regVars, options_, aborted_, d_residentFlags, d_textures,
                   ctlVars, envVars, auxVars>>

\* the stream executes the copy at its head, reading the pinned host buffer now
StreamExecute ==
    /\ streamQ # <<>> /\ Head(streamQ).field \in {"residentFlags", "textures"}
    /\ LET c == Head(streamQ)
           range == c.begin .. (c.begin + c.count - 1)
       IN IF c.field = "residentFlags"
          THEN /\ d_residentFlags' = [w \in Words |-> IF w \in range
                                                     THEN h_residentFlags_[w]
                                                     ELSE d_residentFlags[w]]
               /\ UNCHANGED d_textures
          ELSE /\ d_textures' = [i \in TexIds |-> IF i \in range THEN h_textures_[i]
                                                  ELSE d_textures[i]]
               /\ UNCHANGED d_residentFlags
    /\ streamQ' = Tail(streamQ)
    /\ Obs("stream", "copy", 0)
    /\ UNCHANGED <<textures_, regVars, mirrorVars, dirtyVars, currentFrame_,
                   totalMemoryUsage_, options_, lastError_, aborted_, flushed,
                   ctlVars, envVars, oob, auxVars>>



StreamFrame ==
    UNCHANGED <<textures_, regVars, mirrorVars, dirtyVars, currentFrame_,
                totalMemoryUsage_, options_, lastError_, aborted_, d_residentFlags,
                d_textures, flushed, ctlVars, envVars, oob, asyncVars, ld, snap,
                waitVars, statVars, utilVars>>

\* the caller launches its kernel on the stream: lane l samples texture ids[l]
launchKernel(ids) ==
    /\ Len(streamQ) <= MaxPending + 1
    /\ streamQ' = Append(streamQ, Kernel(currentFrame_, ids))
    /\ Obs("kernel", "launch", Len(ids))
    /\ UNCHANGED ringVars
    /\ StreamFrame

\* the stream executes hipMemsetAsync(d_requestStats_, 0, sizeof(RequestStats))
StreamMemset ==
    /\ streamQ # <<>> /\ Head(streamQ).field = "requestStats"
    /\ d_requestStats_' = RequestStats(0, 0)
    /\ streamQ' = Tail(streamQ)
    /\ Obs("stream", "memset", 0)
    /\ UNCHANGED <<d_requests, lanes, copyQ, evDone, pinned, kernelOut>>
    /\ StreamFrame

kernelRunning == \E l \in Lanes : lanes[l].pc # "idle"

\* the stream starts the kernel at its head: every lane enters tex2D
StreamKernel_start ==
    /\ streamQ # <<>> /\ Head(streamQ).field = "kernel"
    /\ ~kernelRunning
    /\ lanes' = [l \in Lanes |->
                    IF l <= Len(Head(streamQ).ids)
                    THEN [pc |-> "tex2D", texId |-> Head(streamQ).ids[l], idx |-> 0]
                    ELSE [pc |-> "exit", texId |-> 0, idx |-> 0]]
    /\ Obs("stream", "kernel", 0)
    /\ UNCHANGED <<streamQ, d_requestStats_, d_requests, copyQ, evDone, pinned, kernelOut>>
    /\ StreamFrame

LaneFrame ==
    /\ UNCHANGED <<streamQ, copyQ, evDone, pinned, kernelOut>>
    /\ StreamFrame

\* isTextureResident(ctx, texId)
isTextureResident(texId) ==
    IF texId >= MaxTextures THEN FALSE
    ELSE (texId % WordBits) \in d_residentFlags[texId \div WordBits]

\* tex2D(ctx, texId, ...): the bounds check against ctx.maxTextures, then the
\* residency check; a texture that is not resident is requested
lane_tex2D(l) ==
    /\ lanes[l].pc = "tex2D"
    /\ lanes' = [lanes EXCEPT ![l].pc =
                    IF lanes[l].texId >= MaxTextures THEN "exit"
                    ELSE IF ~isTextureResident(lanes[l].texId) THEN "record"
                    ELSE "exit"]
    /\ Obs("tex2D", "", l)
    /\ UNCHANGED <<d_requestStats_, d_requests>>
    /\ LaneFrame

\* recordTextureRequest, first statement: return when requestOverflow is set
lane_checkOverflow(l) ==
    /\ lanes[l].pc = "record"
    /\ lanes' = [lanes EXCEPT ![l].pc =
                    IF d_requestStats_.overflow # 0 THEN "exit" ELSE "atomicAdd"]
    /\ Obs("recordTextureRequest", "overflow", l)
    /\ UNCHANGED <<d_requestStats_, d_requests>>
    /\ LaneFrame

\* idx = atomicAdd(ctx.requestCount, 1); the count stays far below 2^32 here
lane_atomicAdd(l) ==
    /\ lanes[l].pc = "atomicAdd"
    /\ d_requestStats_' = [d_requestStats_ EXCEPT !.count = @ + 1]
    /\ lanes' = [lanes EXCEPT ![l].pc = "store", ![l].idx = d_requestStats_.count]
    /\ Obs("recordTextureRequest", "atomicAdd", l)
    /\ UNCHANGED d_requests
    /\ LaneFrame

\* if (idx < ctx.maxRequests) requests[idx] = texId; else atomicExch(overflow, 1)
lane_store_noOverflowFlag(l) ==
    /\ lanes[l].pc = "store"
    /\ IF lanes[l].idx < MaxRequests
       THEN d_requests' = [d_requests EXCEPT ![lanes[l].idx] = lanes[l].texId]
       ELSE UNCHANGED d_requests
    /\ UNCHANGED d_requestStats_
    /\ lanes' = [lanes EXCEPT ![l].pc = "exit"]
    /\ Obs("recordTextureRequest", "store", l)
    /\ LaneFrame
lane_store(l) ==
    /\ lanes[l].pc = "store"
    /\ IF lanes[l].idx < MaxRequests
       THEN /\ d_requests' = [d_requests EXCEPT ![lanes[l].idx] = lanes[l].texId]
            /\ UNCHANGED d_requestStats_
       ELSE /\ d_requestStats_' = [d_requestStats_ EXCEPT !.overflow = 1]
            /\ UNCHANGED d_requests
    /\ lanes' = [lanes EXCEPT ![l].pc = "exit"]
    /\ Obs("recordTextureRequest", "store", l)
    /\ LaneFrame

\* every lane has left the kernel: the stream moves on
StreamKernel_end ==
    /\ streamQ # <<>> /\ Head(streamQ).field = "kernel"
    /\ \A l \in Lanes : lanes[l].pc = "exit"
    /\ lanes' = [l \in Lanes |-> NoLane]
    /\ kernelOut' = [kernelOut EXCEPT ![Head(streamQ).frame] =
                        [count |-> d_requestStats_.count,
                         overflow |-> d_requestStats_.overflow,
                         requests |-> d_requests, ids |-> Head(streamQ).ids]]
    /\ streamQ' = Tail(streamQ)
    /\ Obs("stream", "kernel-end", 0)
    /\ UNCHANGED <<d_requestStats_, d_requests, copyQ, evDone, pinned>>
    /\ StreamFrame

\* the stream reaches hipEventRecord(event, stream): the event completes
StreamRecord ==
    /\ streamQ # <<>> /\ Head(streamQ).field = "record"
    /\ evDone' = evDone \cup {Head(streamQ).event}
    /\ streamQ' = Tail(streamQ)
    /\ Obs("stream", "record", 0)
    /\ UNCHANGED <<d_requestStats_, d_requests, lanes, copyQ, pinned, kernelOut>>
    /\ StreamFrame

CopyFrame ==
    /\ UNCHANGED <<streamQ, d_requestStats_, d_requests, lanes, kernelOut>>
    /\ StreamFrame

\* requestCopyStream_ passes hipStreamWaitEvent once the event has completed
CopyWait ==
    /\ copyQ # <<>> /\ Head(copyQ).field = "wait"
    /\ Head(copyQ).event \in evDone
    /\ copyQ' = Tail(copyQ)
    /\ Obs("copyStream", "wait", 0)
    /\ UNCHANGED <<evDone, pinned>>
    /\ CopyFrame

\* requestCopyStream_ executes one of the three hipMemcpyAsync of the
\* readback, reading device memory as it is now
CopyReadback ==
    /\ copyQ # <<>> /\ Head(copyQ).field \in {"count", "overflow", "requests"}
    /\ LET c == Head(copyQ)
       IN pinned' = [pinned EXCEPT ![c.k] =
              IF c.field = "count" THEN [@ EXCEPT !.count = d_requestStats_.count]
              ELSE IF c.field = "overflow"
              THEN [@ EXCEPT !.overflow = d_requestStats_.overflow]
              ELSE [@ EXCEPT !.requests =
                       [slot \in Slots |-> IF slot < c.count THEN d_requests[slot]
                                           ELSE @[slot]]]]
    /\ copyQ' = Tail(copyQ)
    /\ Obs("copyStream", "copy", 0)
    /\ UNCHANGED evDone
    /\ CopyFrame

\* requestCopyStream_ reaches hipEventRecord(copyDone, copyStream)
CopyRecord ==
    /\ copyQ # <<>> /\ Head(copyQ).field = "record"
    /\ evDone' = evDone \cup {Head(copyQ).event}
    /\ copyQ' = Tail(copyQ)
    /\ Obs("copyStream", "record", 0)
    /\ UNCHANGED pinned
    /\ CopyFrame

----------------------------------------------------------------------------
(* Construction *)

\* Impl::Impl(options): zeroed mirrors and device buffers, markAllDirty()
InitWith(Budgets, Holds, Observe) ==
    /\ textures_ = [i \in TexIds |-> DefaultTexture]
    /\ nextTextureId_ = 0
    /\ imageSourceToTextureId_ = EmptyMap
    /\ filenameHashToTextureId_ = EmptyMap
    /\ h_residentFlags_ = [w \in Words |-> {}]
    /\ h_textures_ = [i \in TexIds |-> 0]
    /\ residentFlagsDirty_ = TRUE
    /\ texturesDirty_ = TRUE
    /\ dirtyResidentWordBegin_ = 0
    /\ dirtyResidentWordEnd_ = (IF flagWordCount_ # 0 THEN flagWordCount_ - 1 ELSE 0)
    /\ dirtyTextureBegin_ = 0
    /\ dirtyTextureEnd_ = (IF MaxTextures # 0 THEN MaxTextures - 1 ELSE 0)
    /\ currentFrame_ = 0
    /\ totalMemoryUsage_ = 0
    /\ options_ \in [maxTextureMemory : Budgets, enableEviction : {TRUE},
                     minResidentFrames : Holds]
    /\ lastError_ = "Success"
    /\ aborted_ = FALSE
    /\ d_residentFlags = [w \in Words |-> {}]
    /\ d_textures = [i \in TexIds |-> 0]
    /\ streamQ = <<>>
    /\ flushed = NotFlushed
    /\ pr = Idle
    /\ abortPc = "idle"
    /\ readers = [p \in Ptrs |-> NoReader]
    /\ ret = NoHandle
    /\ lastOp = Op("Impl", "", 0, "")
    /\ rdId = [p \in Ptrs |-> -1]
    /\ oob = FALSE
    /\ observe = Observe
    /\ inFlightAsync_ = 0
    /\ destroying_ = FALSE
    /\ pools = "alive"
    /\ ac = "idle"
    /\ tasks_ = <<>>
    /\ ticket = [k \in TicketIds |-> NoTicket]
    /\ dtorPc = "idle"
    /\ ld = [t \in Loaders |-> NotLoading]
    /\ snap = NoSnap
    /\ wt = [w \in Waiters |-> NotWaiting]
    /\ tstream = [k \in TicketIds |-> DefaultStream]
    /\ recorded = [w \in Waiters |-> <<>>]
    /\ d_requestStats_ = RequestStats(0, 0)
    /\ d_requests = [slot \in Slots |-> 0]
    /\ lanes = [l \in Lanes |-> NoLane]
    /\ copyQ = <<>>
    /\ evDone = {}
    /\ pinned = [k \in TicketIds |-> NoReadback]
    /\ lastRequestCount_ = 0
    /\ lastRequestOverflow_ = FALSE
    /\ kernelOut = [f \in 0 .. (MaxFrame + 1) |-> NoKernel]
    /\ pool_ = <<>>
    /\ handles = {}
    /\ hostAllocs = {}
    /\ tpTasks_ = <<>>
    /\ activeWorkers_ = 0
    /\ stopping_ = FALSE
    /\ workers_ = [w \in Workers |-> NoWorker]
    /\ caller = NoCaller
    /\ executed = [t \in Tasks |-> 0]

----------------------------------------------------------------------------
(* Specification of the texture registry: the three creation operations and  *)
(* the caller's reader objects.                                               *)

RegPaths == {"a.png", "c.png"}
RegHashes == {0, 1, 2}
RegDesc == TextureDesc("Normal", TRUE, 0)

\* the file system: "c.png" does not exist
FileFound(filename) == filename # "c.png"
\* a reader whose hash is 2 reads a damaged file: open() fails
ReaderOpens(h) == h # 2

InitReg == InitWith({0}, {3}, {"ops"})

RegCreateFile ==
    \E filename \in RegPaths :
        createTexture_filename(filename, RegDesc, FileFound(filename), 2, 2, 3)

RegCreateReader ==
    \E p \in Ptrs :
        /\ readers[p].alive
        /\ createTexture_imageSource(p, RegDesc, ReaderOpens(readers[p].hash), 2, 1, 4)

RegCreateNullReader ==
    createTexture_imageSource(0, RegDesc, FALSE, 0, 0, 0)

RegCreateMemory ==
    \E a \in {<<FALSE, 1, 1, 1>>, <<TRUE, 1, 1, 1>>, <<FALSE, 0, 1, 1>>,
              <<FALSE, 1, 0, 1>>, <<FALSE, 1, 1, 0>>} :
        createTextureFromMemory(a[1], a[2], a[3], a[4], RegDesc)

RegNewReader == \E p \in Ptrs, h \in RegHashes : NewReader(p, h)

RegDropReader == \E p \in Ptrs : DropReader(p)

NextReg ==
    \/ RegCreateFile
    \/ RegCreateReader
    \/ RegCreateNullReader
    \/ RegCreateMemory
    \/ RegNewReader
    \/ RegDropReader

SpecReg == InitReg /\ [][NextReg]_vars

----------------------------------------------------------------------------
(* Inputs shared by the residency specifications: every texture is a 1x1 RGB  *)
(* block registered from memory (4 bytes once loaded as RGBA).                *)

\* options_.maxTextureMemory and options_.minResidentFrames of the runs with eviction
Budget == 4
HoldDown == 2

\* the smallest handle value that no live texture object has
FreshObj == CHOOSE o \in 1 .. (MaxTextures + 1) :
                o \notin LiveObjs /\ \A x \in 1 .. (o - 1) : x \in LiveObjs

Create == createTextureFromMemory(FALSE, 1, 1, 3, TextureDesc("Normal", TRUE, 0))

Request == \E requests \in SUBSET TexIds : processRequests(SeqOf(requests), TRUE, TRUE)

LoadClaim == \E texId \in TexIds : loadTexture_claim(texId)

Load == \E texId \in TexIds : loadTexture_finish(texId, "ok", FreshObj)

LoadFails == \E texId \in TexIds : loadTexture_finish(texId, "HipError", FreshObj)

UnloadValid == \E texId \in TexIds : unloadTexture(texId, TRUE, NoJunk)

\* an id beyond the table is passed at most once in a run
UnloadBeyond ==
    \E junk \in JunkMetadata : ~oob /\ unloadTexture(MaxTextures, TRUE, junk)

SetPriority ==
    \E texId \in TexIds, priority \in {"Normal", "KeepResident"} :
        updateEvictionPriority(texId, priority)

----------------------------------------------------------------------------
(* Specification of residency: loads (also failing ones), evictions with no   *)
(* hold-down, explicit unloads and abort, interleaved between the critical    *)
(* sections of a processRequests call.                                        *)

Init == InitWith({Budget}, {0}, {})

Next ==
    \/ Create
    \/ Request
    \/ LoadClaim
    \/ Load
    \/ LoadFails
    \/ processRequests_return
    \/ UnloadValid
    \/ UnloadBeyond
    \/ unloadAll(TRUE)
    \/ abort_flag
    \/ abort_wait
    \/ abort_pools
    \/ abort_unload(TRUE)

Spec == Init /\ [][Next]_vars

----------------------------------------------------------------------------
(* Specification of eviction: one caller that registers, pins, requests and   *)
(* prepares frames, synchronising the render stream after launchPrepare.      *)

InitEvict == InitWith({Budget}, {HoldDown}, {})

CallerStep ==
    \/ Create
    \/ Request
    \/ SetPriority
    \/ launchPrepare("ok")

NextEvict ==
    \/ ~pr.active /\ streamQ = <<>> /\ CallerStep
    \/ LoadClaim
    \/ Load
    \/ processRequests_return
    \/ StreamExecute

SpecEvict == InitEvict /\ [][NextEvict]_vars

----------------------------------------------------------------------------
(* Specification of the eviction order: one caller that registers textures,  *)
(* gives them any priority, requests and prepares frames, with a budget of    *)
(* two textures.                                                              *)

InitOrder == InitWith({2 * Budget}, {1}, {"evict"})

SetAnyPriority ==
    \E texId \in TexIds, priority \in Priorities :
        /\ texId < nextTextureId_
        /\ priority # textures_[texId].desc.evictionPriority
        /\ updateEvictionPriority(texId, priority)

OrderCallerStep ==
    \/ Create
    \/ Request
    \/ SetAnyPriority
    \/ launchPrepare("ok")

NextOrder ==
    \/ ~pr.active /\ streamQ = <<>> /\ OrderCallerStep
    \/ LoadClaim
    \/ Load
    \/ processRequests_return
    \/ StreamExecute

SpecOrder == InitOrder /\ [][NextOrder]_vars

----------------------------------------------------------------------------
(* Specification of the eviction budget: one caller that registers textures,  *)
(* pins them, switches eviction on and off, changes the budget, requests and  *)
(* prepares frames.                                                           *)

\* the budgets the caller sets: unlimited, one texture, two textures
CallerBudgets == {0, Budget, 2 * Budget}

InitBudget == InitWith({2 * Budget}, {1}, {"evict"})

SwitchEviction == enableEviction(~options_.enableEviction)

SetBudget ==
    \E bytes \in CallerBudgets :
        bytes # options_.maxTextureMemory /\ setMaxTextureMemory(bytes)

BudgetCallerStep ==
    \/ Create
    \/ Request
    \/ SetPriority
    \/ SwitchEviction
    \/ SetBudget
    \/ launchPrepare("ok")

NextBudget ==
    \/ ~pr.active /\ streamQ = <<>> /\ BudgetCallerStep
    \/ LoadClaim
    \/ Load
    \/ processRequests_return
    \/ StreamExecute

SpecBudget == InitBudget /\ [][NextBudget]_vars

----------------------------------------------------------------------------
(* Specification of concurrent loads: NumLoaders threads call loadTexture for *)
(* any registered texture while textures are registered and unloaded.         *)

InitLoad == InitWith({0}, {0}, {})

LoaderStep(t) ==
    \/ \E texId \in TexIds : load_call(t, texId)
    \/ load_readResident(t)
    \/ load_readLoading(t)
    \/ load_cas(t)
    \/ load_snapshot(t)
    \/ \E outcome \in {"ok", "HipError"} : load_end(t, outcome, FreshObj)

NextLoad ==
    \/ Create
    \/ UnloadValid
    \/ \E t \in Loaders : LoaderStep(t)

SpecLoad == InitLoad /\ [][NextLoad]_vars

----------------------------------------------------------------------------
(* Specification of the device mirrors: loads and unloads interleaved with    *)
(* launchPrepare and with the render stream executing the enqueued copies.    *)

InitMirror == InitWith({0}, {0}, {"flush"})

\* the caller of this specification registers MirrorTextures textures and
\* requests one texture per call
MirrorTextures == 2

CreateSome == nextTextureId_ < MirrorTextures /\ Create

RequestOne == \E texId \in TexIds : processRequests(<<texId>>, TRUE, TRUE)

NextMirror ==
    \/ CreateSome
    \/ RequestOne
    \/ LoadClaim
    \/ Load
    \/ processRequests_return
    \/ UnloadValid
    \/ \E gpu \in GpuOutcomes : launchPrepare(gpu)
    \/ StreamExecute

SpecMirror == InitMirror /\ [][NextMirror]_vars

----------------------------------------------------------------------------
(* Properties of the texture registry (SpecReg) *)

CreateOps == {"createTexture(filename)", "createTexture(imageSource)",
              "createTextureFromMemory"}
ReuseBranches == {"reuse", "reuse-pointer", "reuse-hash"}

\* the source for which texture id was allocated is the argument of the last
\* creation: the same path string, the same reader object, a reader with the
\* same non-zero content hash, or the pixel block just registered
ReturnedForOwnSource ==
    (lastOp.op \in CreateOps /\ ret.valid) =>
        LET t == textures_[ret.id] IN
        CASE lastOp.op = "createTexture(filename)" -> t.filename = lastOp.path
          [] lastOp.op = "createTexture(imageSource)" ->
                /\ t.imageSource # 0
                /\ \/ t.imageSource = lastOp.arg
                   \/ /\ readers[lastOp.arg].hash # 0
                      /\ readers[t.imageSource].hash = readers[lastOp.arg].hash
          [] OTHER -> t.cachedData # 0 /\ ret.id = nextTextureId_ - 1

C5_Step ==
    /\ nextTextureId_' >= nextTextureId_
    /\ (nextTextureId_' # nextTextureId_) =>
           /\ nextTextureId_' = nextTextureId_ + 1
           /\ ret'.valid /\ ret'.id = nextTextureId_
    /\ (lastOp'.op \in CreateOps /\ ret'.valid /\ lastOp'.branch \notin ReuseBranches) =>
           nextTextureId_' = nextTextureId_ + 1
    /\ \A i \in TexIds : i < nextTextureId_ =>
           /\ textures_'[i].filename = textures_[i].filename
           /\ textures_'[i].imageSource = textures_[i].imageSource
           /\ textures_'[i].cachedData = textures_[i].cachedData
    /\ ReturnedForOwnSource'

\* C5: ids are handed out as 0, 1, 2, ... in allocation order (the k-th
\* successful non-deduplicated creation returns id k-1), allocated_count never
\* decreases, and no id is ever returned for a second distinct source.
C5_IdsInAllocationOrder == [][C5_Step]_vars

C6_Step ==
    (lastOp'.op = "createTexture(imageSource)" /\ lastOp'.arg # 0) =>
        LET x == lastOp'.arg IN
        /\ rdId[x] # -1 =>
               /\ ret'.valid /\ ret'.id = rdId[x]
               /\ nextTextureId_' = nextTextureId_
        /\ \A y \in Ptrs \ {x} :
               (readers[y].alive /\ rdId[y] # -1 /\ readers[x].hash # 0
                    /\ readers[y].hash = readers[x].hash) =>
                   (ret'.valid /\ ret'.id = rdId[y])

\* C6: create_texture(x) repeated for the same reader x returns valid handles
\* with equal ids and allocates no new id; for two distinct reader objects with
\* the same non-zero content hash the second creation returns the first one's
\* id, also when the table is full.
C6_ReaderDedup == [][C6_Step]_vars

\* C7: content-hash deduplication never matches hash 0: two distinct reader
\* objects that both report hash 0 receive distinct ids, and readers with
\* different non-zero hashes receive distinct ids.
C7_NoFalseHashMatch ==
    \A x \in Ptrs, y \in Ptrs :
        (x # y /\ readers[x].alive /\ readers[y].alive
             /\ rdId[x] # -1 /\ rdId[y] # -1
             /\ \/ readers[x].hash = 0 /\ readers[y].hash = 0
                \/ /\ readers[x].hash # 0 /\ readers[y].hash # 0
                   /\ readers[x].hash # readers[y].hash)
        => rdId[x] # rdId[y]

C8_Step ==
    (/\ nextTextureId_ >= MaxTextures
     /\ lastOp'.op \in CreateOps
     /\ lastOp'.branch \notin ReuseBranches \cup {"null", "invalid"}) =>
        /\ ret' = TextureHandle(0, FALSE, 0, 0, 0, "MaxTexturesExceeded")
        /\ lastError_' = "MaxTexturesExceeded"
        /\ UNCHANGED <<nextTextureId_, imageSourceToTextureId_,
                       filenameHashToTextureId_, textures_>>

\* C8: once max_textures ids are allocated, every further creation of a new
\* (non-deduplicated) source by any of the three create operations returns an
\* invalid handle with error MaxTexturesExceeded, sets last_error to
\* MaxTexturesExceeded and leaves allocated_count, the dedup maps and all
\* texture metadata unchanged.
C8_FullTableRejects == [][C8_Step]_vars

C8_Witness ==
    /\ nextTextureId_ = MaxTextures
    /\ lastOp.op = "createTexture(imageSource)" /\ lastOp.branch = "full"
    /\ ret.error = "MaxTexturesExceeded" /\ ~ret.valid
    /\ readers[lastOp.arg].hash # 0

\* the error a failing creation has to report, "" if the creation does not fail
CreationFailure(op, full) ==
    CASE op.op = "createTexture(imageSource)" /\ op.arg = 0 -> {"InvalidParameter"}
      [] op.op = "createTextureFromMemory" /\ op.branch = "invalid" -> {"InvalidParameter"}
      [] op.op = "createTexture(filename)" /\ ~FileFound(op.path) ->
             {"FileNotFound"} \cup (IF full THEN {"MaxTexturesExceeded"} ELSE {})
      [] op.op = "createTexture(imageSource)" /\ op.arg # 0
             /\ ~ReaderOpens(readers[op.arg].hash) ->
             {"ImageLoadFailed"} \cup (IF full THEN {"MaxTexturesExceeded"} ELSE {})
      [] OTHER -> {}

C9_Step ==
    LET kinds == CreationFailure(lastOp', tableFull(nextTextureId_)) IN
    kinds # {} =>
        /\ ~ret'.valid
        /\ ret'.error \in kinds
        /\ lastError_' = ret'.error
        /\ nextTextureId_' = nextTextureId_

\* C9: every creation failure (null reader; null pixels or non-positive
\* width/height/channels; a path whose file cannot be found; a reader that fails
\* to open) returns valid=false with the matching error kind, sets last_error to
\* the same kind and allocates no id.
C9_CreationFailureSurfaces == [][C9_Step]_vars

----------------------------------------------------------------------------
(* Properties of residency, eviction and the device mirrors *)

residentBit(i) == (i % WordBits) \in h_residentFlags_[i \div WordBits]

\* a texture that was published once (publication leaves channels = 4, the
\* textures of these specifications are registered with 3 channels)
wasLoaded(i) == i < nextTextureId_ /\ textures_[i].channels = 4

\* C1: for every allocated id, the host handle-table entry is non-zero iff the
\* host residency bit is set iff the texture is resident, in every state in
\* which the engine lock is free.
C1_MirrorMatchesResidency ==
    \A i \in TexIds : i < nextTextureId_ =>
        /\ (h_textures_[i] # 0) <=> residentBit(i)
        /\ residentBit(i) <=> textures_[i].resident

C1_Witness ==
    /\ oob
    /\ \E i \in TexIds, j \in TexIds :
          /\ i < nextTextureId_ /\ textures_[i].resident
          /\ h_textures_[i] # 0 /\ residentBit(i)
          /\ wasLoaded(j) /\ ~textures_[j].resident
          /\ h_textures_[j] = 0 /\ ~residentBit(j)

\* C2: the memory total equals the sum of memoryUsage over exactly the resident
\* textures (a non-resident texture contributes 0), so it never wraps.
C2_TotalIsSumOfResident ==
    totalMemoryUsage_ =
        SumOver([i \in TexIds |-> IF textures_[i].resident
                                  THEN textures_[i].memoryUsage ELSE 0], TexIds)

protected(tex) ==
    \/ tex.desc.evictionPriority = "KeepResident"
    \/ currentFrame_ - tex.loadedFrame < options_.minResidentFrames

BudgetRespected ==
    (options_.enableEviction /\ options_.maxTextureMemory > 0) =>
        \/ totalMemoryUsage_ <= options_.maxTextureMemory
        \/ \A i \in TexIds : textures_[i].resident => protected(textures_[i])

\* C3: with eviction enabled and a budget > 0, at the end of every
\* processRequests call the memory total is within the budget, unless every
\* resident texture is KeepResident or inside its hold-down window.
C3_BudgetAtEndOfCall == [][(pr.active /\ ~pr'.active) => BudgetRespected']_vars

\* C4: once the copies a launchPrepare enqueued have executed, the device
\* residency bitmap and the device handle table equal the host mirrors as they
\* were when that launchPrepare held the lock.
C4_DeviceEqualsFlushedHost ==
    (flushed.valid /\ streamQ = <<>>) =>
        /\ d_residentFlags = flushed.residentFlags
        /\ d_textures = flushed.textures

\* the ranges of the copies still waiting on the stream
pendingRange(field) ==
    UNION {c.begin .. (c.begin + c.count - 1) :
               c \in {streamQ[k] : k \in {n \in DOMAIN streamQ : streamQ[n].field = field}}}

\* The dirty-interval form of the mirror property: every index at which a host
\* mirror differs from the device lies inside the dirty interval of that mirror
\* or inside the range of a copy that has not executed yet.
DirtyCoversMismatch ==
    /\ \A w \in Words : h_residentFlags_[w] # d_residentFlags[w] =>
           \/ residentFlagsDirty_ /\ dirtyResidentWordBegin_ <= w
                                  /\ w <= dirtyResidentWordEnd_
           \/ w \in pendingRange("residentFlags")
    /\ \A i \in TexIds : h_textures_[i] # d_textures[i] =>
           \/ texturesDirty_ /\ dirtyTextureBegin_ <= i /\ i <= dirtyTextureEnd_
           \/ i \in pendingRange("textures")

C10_Step ==
    (~pr.active /\ pr'.active) =>
        \A i \in TexIds :
            (textures_[i].resident /\ ~textures_'[i].resident) =>
                /\ textures_[i].desc.evictionPriority # "KeepResident"
                /\ currentFrame_ - textures_[i].loadedFrame >= options_.minResidentFrames

\* C10: the evictor, run inside processRequests, never destroys a texture whose
\* priority is KeepResident at that moment and never destroys a texture with
\* currentFrame - loadedFrame < minResidentFrames.
C10_EvictorSparesProtected == [][C10_Step]_vars

\* an eviction pass has just destroyed texture j and left the pinned texture i
C10_Witness ==
    /\ pr.active /\ pr.toLoad # {} /\ pr.running = {} /\ pr.loaded = 0
    /\ \E i \in TexIds, j \in TexIds :
          /\ textures_[i].resident
          /\ textures_[i].desc.evictionPriority = "KeepResident"
          /\ currentFrame_ - textures_[i].loadedFrame >= options_.minResidentFrames
          /\ wasLoaded(j) /\ ~textures_[j].resident /\ j \notin pr.toLoad
          /\ textures_[j].loadedFrame = textures_[i].loadedFrame

----------------------------------------------------------------------------
(* Properties of the eviction pass (SpecOrder, SpecBudget) *)

\* the step of a processRequests call that holds the lock and runs the evictor
EvictionPass == ~pr.active /\ pr'.active

\* the order the evictor is to follow: Low = 0, Normal = 1, High = 2, then the
\* older lastUsedFrame first
evictedBefore(u, t) ==
    LET score(tex) == CASE tex.desc.evictionPriority = "Low" -> 0
                        [] tex.desc.evictionPriority = "Normal" -> 1
                        [] tex.desc.evictionPriority = "High" -> 2
                        [] OTHER -> 3
    IN \/ score(u) < score(t)
       \/ score(u) = score(t) /\ u.lastUsedFrame < t.lastUsedFrame

C11_Step ==
    EvictionPass =>
        \A t \in TexIds, u \in TexIds :
            (/\ evictable(textures_[t]) /\ ~textures_'[t].resident
             /\ evictable(textures_[u])
             /\ evictedBefore(textures_[u], textures_[t]))
            => ~textures_'[u].resident

\* C11: within one eviction pass, whenever a texture t is evicted, no eligible
\* resident texture with a strictly smaller priority score (Low = 0, Normal = 1,
\* High = 2), or with an equal score and a strictly older lastUsedFrame, is
\* left resident by that pass.
C11_EvictionOrder == [][C11_Step]_vars

\* a pass has just destroyed a texture and left an eligible one that comes
\* later in the order
C11_Witness ==
    /\ lastOp.op = "evictIfNeeded" /\ lastOp.arg >= 1
    /\ \E t \in TexIds, u \in TexIds :
          /\ wasLoaded(t) /\ ~textures_[t].resident
          /\ textures_[t].desc.evictionPriority # "KeepResident"
          /\ evictable(textures_[u])
          /\ evictedBefore(textures_[t], textures_[u])

\* the memory the call in progress has projected for the textures it loads
requiredMemory(toLoad) == SumOver([i \in toLoad |-> estimate(textures_[i])], toLoad)

C12_Step ==
    (/\ EvictionPass
     /\ evictionRequested(requiredMemory(pr'.toLoad))
     /\ totalMemoryUsage_ + requiredMemory(pr'.toLoad) > options_.maxTextureMemory)
    => \/ totalMemoryUsage_' + requiredMemory(pr'.toLoad) <= options_.maxTextureMemory
       \/ \A i \in TexIds : ~evictable(textures_'[i])

\* C12: an eviction pass entered with a budget > 0 and current + required over
\* the budget destroys eligible textures until current <= budget - required (a
\* mathematical difference) or no eligible texture is left; in particular it
\* evicts every eligible texture when required > budget.
C12_EvictsUntilFitsOrExhausted == [][C12_Step]_vars

\* every texture that is resident stays resident with the same handle
ResidentsKept ==
    \A i \in TexIds :
        textures_[i].resident =>
            /\ textures_'[i].resident
            /\ h_textures_'[i] = h_textures_[i] /\ h_textures_'[i] # 0

C13_Step ==
    /\ (/\ EvictionPass
        /\ \/ options_.maxTextureMemory = 0
           \/ ~options_.enableEviction
           \/ totalMemoryUsage_ + requiredMemory(pr'.toLoad) <= options_.maxTextureMemory)
       => ResidentsKept
    /\ pr.active => ResidentsKept

\* C13: if maxTextureMemory is 0, or eviction is disabled, or current + required
\* fits the budget, processRequests evicts nothing: every texture resident
\* before the call is still resident after it with its handle-table entry
\* unchanged.
C13_NoEvictionWhenNotNeeded == [][C13_Step]_vars

\* a call has just scheduled loads over the budget with eviction switched off
\* and has left an eligible texture resident
C13_Witness ==
    /\ lastOp.op = "evictIfNeeded" /\ lastOp.arg = 0
    /\ pr.active /\ pr.toLoad # {}
    /\ ~options_.enableEviction /\ options_.maxTextureMemory > 0
    /\ requiredMemory(pr.toLoad) <= options_.maxTextureMemory
    /\ totalMemoryUsage_ + requiredMemory(pr.toLoad) > options_.maxTextureMemory
    /\ \E i \in TexIds : evictable(textures_[i]) /\ h_textures_[i] # 0

----------------------------------------------------------------------------
(* Properties of concurrent loads (SpecLoad) *)

\* the threads that hold the loading claim of texture i
ClaimHolders(i) == {t \in Loaders : ld[t].tex = i /\ ld[t].pc \in {"snapshot", "work"}}

OneClaimPerTexture ==
    \A i \in TexIds :
        /\ Cardinality(ClaimHolders(i)) <= 1
        /\ ClaimHolders(i) # {} => textures_[i].loading

C14_Step ==
    /\ \A i \in TexIds :
          (h_textures_'[i] # 0 /\ h_textures_'[i] # h_textures_[i]) =>
              /\ ~textures_[i].resident /\ h_textures_[i] = 0 /\ ~residentBit(i)
              /\ \E t \in ClaimHolders(i) : ld[t].pc = "work" /\ ld'[t] = NotLoading
              /\ totalMemoryUsage_' = totalMemoryUsage_ + textures_'[i].memoryUsage
    /\ \A t \in Loaders :
          (ld[t].pc \in {"readResident", "readLoading", "cas"}
           /\ ld'[t] = NotLoading) =>
              UNCHANGED <<textures_, mirrorVars, dirtyVars, totalMemoryUsage_>>
    /\ totalMemoryUsage_' >= totalMemoryUsage_ =>
          LET published == {i \in TexIds : ~textures_[i].resident /\ textures_'[i].resident}
          IN SumOver([i \in published |-> textures_'[i].memoryUsage], published)
                 = totalMemoryUsage_' - totalMemoryUsage_

\* C14: of the threads that run loadTexture for one id at the same time at
\* most one holds the loading claim, the others return false without changing
\* anything, the texture is published only by the claim holder and only while
\* it is not resident, and the memory total grows by its memoryUsage once.
C14_SingleLoaderPerTexture == [][OneClaimPerTexture' /\ C14_Step]_vars

\* one thread decodes texture i while another one is about to attempt the
\* compare-exchange on the same texture
C14_Witness ==
    \E i \in TexIds, t \in Loaders, u \in Loaders :
        /\ ld[t] = [pc |-> "work", tex |-> i]
        /\ ld[u] = [pc |-> "cas", tex |-> i]
        /\ wasLoaded(i)


----------------------------------------------------------------------------
\* the step in which the load of texture i returns with a failure
LoadFailed(i) ==
    /\ pr.active /\ i \in pr.running
    /\ i \notin pr'.running
    /\ ~textures_'[i].resident

\* C15: when a load fails, the texture is afterwards Allocated (not resident,
\* not loading) with no GPU resource attached and its error recorded; the host
\* handle table, the residency bitmap, the dirty intervals and the total
\* texture memory are unchanged; processRequests does not count the load; and
\* a later request for the id passes the filter of processRequests and the
\* checks of loadTexture again.
C15_Step ==
    \A i \in TexIds :
        LoadFailed(i) =>
            /\ ~textures_'[i].resident /\ ~textures_'[i].loading
            /\ textures_'[i].texObj = 0
            /\ ~textures_'[i].array /\ ~textures_'[i].mipmapArray
            /\ textures_'[i].lastError \in LoadFailures(textures_[i])
            /\ UNCHANGED <<mirrorVars, dirtyVars, totalMemoryUsage_>>
            /\ pr'.loaded = pr.loaded
            /\ i < nextTextureId_'
            /\ \A j \in TexIds \ {i} : textures_'[j] = textures_[j]
----------------------------------------------------------------------------
(* Specification of the round trip: one caller that registers, requests and   *)
(* unloads; after it has unloaded a resident texture, its next call is a      *)
(* request for that texture.                                                  *)

InitTrip == InitWith({Budget}, {0}, {"trip"})

RequestUnloaded == processRequests(<<snap.id>>, TRUE, TRUE)

TripCallerStep ==
    IF snap = NoSnap
    THEN Create \/ Request \/ UnloadValid \/ SwitchEviction
    ELSE RequestUnloaded

NextTrip ==
    \/ (~pr.active /\ TripCallerStep)
    \/ LoadClaim
    \/ Load
    \/ processRequests_return

SpecTrip == InitTrip /\ [][NextTrip]_vars

\* the request that follows an unload has run all its loads
TripComplete == snap # NoSnap /\ pr.active /\ pr.toLoad = {} /\ pr.running = {}

\* C16: after unloadTexture(id) of a loaded texture and a new request for id
\* processed by processRequests, the memory usage of id, the total texture
\* memory and the set of resident ids are what they were before the unload.
C16_RoundTripRestores ==
    TripComplete =>
        /\ textures_[snap.id].resident
        /\ textures_[snap.id].memoryUsage = snap.memoryUsage
        /\ totalMemoryUsage_ = snap.total
        /\ {i \in TexIds : textures_[i].resident} = snap.resident
        /\ \A i \in TexIds : i \in h_residentFlags_[i \div WordBits] <=> i \in snap.resident


----------------------------------------------------------------------------
(* Specification of the asynchronous path: callers of processRequests and     *)
(* processRequestsAsync, the ticket worker, waiters on the tickets, abort on  *)
(* another thread and the destructor.                                         *)

InitAsync == InitWith({0}, {0}, {"ops"})

AsyncRequests == {{}, {0}, {0, 1}}

CreateTwo == nextTextureId_ < 2 /\ dtorPc = "idle" /\ Create

RequestSync ==
    /\ dtorPc = "idle"
    /\ \E requests \in AsyncRequests \ {{}} : processRequests(SeqOf(requests), TRUE, TRUE)

AsyncCall ==
    \/ async_enter
    \/ async_checkDestroying
    \/ async_checkAborted
    \/ async_commit(RenderStream)
    \/ async_guard

WorkerStep ==
    \/ worker_take
    \/ \E k \in TicketIds, requests \in AsyncRequests : worker_body(k, SeqOf(requests))
    \/ \E k \in TicketIds : worker_hostReturn(k)
    \/ \E k \in TicketIds : worker_guard(k)
    \/ \E k \in TicketIds : worker_markDone(k)
    \/ \E k \in TicketIds : worker_notify(k)
    \/ \E k \in TicketIds : worker_release(k)

WaiterStep == \E k \in TicketIds : Ticket_wait(k)

AbortStep ==
    \/ (dtorPc = "idle" /\ abort_flag)
    \/ abort_wait
    \/ abort_pools
    \/ abort_unload(TRUE)

\* the owner destroys the loader when no call of its own and no abort is running
DtorStep ==
    \/ (abortPc \in {"idle", "done"} /\ ~(pr.active /\ pr.by = 0) /\ dtor_flag)
    \/ dtor_wait
    \/ dtor_pools
    \/ dtor_unload

NextAsync ==
    \/ CreateTwo
    \/ RequestSync
    \/ AsyncCall
    \/ WorkerStep
    \/ WaiterStep
    \/ LoadClaim
    \/ Load
    \/ processRequests_return
    \/ AbortStep
    \/ DtorStep

SpecAsync == InitAsync /\ [][NextAsync]_vars


----------------------------------------------------------------------------
\* the step is a call of processRequests (not the pass a ticket's task runs)
SyncCall == ~pr.active /\ lastOp'.op = "processRequests" /\ ticket' = ticket

\* the calls of processRequestsAsync and the tickets that hold the counter
CounterHolders ==
    (IF ac = "idle" THEN 0 ELSE 1)
    + Cardinality({k \in TicketIds : ticket[k] \in {"queued", "started", "running", "ending"}})

\* C17: once abort has been called, aborted_ stays true; every processRequests
\* call returns 0 and changes nothing; every processRequestsAsync call returns
\* an empty ticket, creates no task and takes back its increment of the
\* in-flight counter; and no texture enters Loading.
C17_Step ==
    /\ aborted_ => aborted_'
    /\ aborted_ /\ SyncCall =>
           /\ lastOp' = Op("processRequests", "aborted", 0, "")
           /\ UNCHANGED <<textures_, pr, inFlightAsync_, totalMemoryUsage_, mirrorVars>>
    /\ aborted_ /\ ac = "checkAborted" /\ ac' # ac => ac' = "guard"
    /\ ac = "guard" /\ ac' # ac =>
           /\ lastOp' = Op("processRequestsAsync", "empty", 0, "")
           /\ inFlightAsync_' = inFlightAsync_ - 1
           /\ UNCHANGED <<ticket, tasks_, textures_, pr>>
    /\ ac = "idle" /\ ac' # ac => inFlightAsync_' = inFlightAsync_ + 1
    /\ inFlightAsync_' = CounterHolders'
    /\ aborted_ => \A i \in TexIds : textures_'[i].loading => textures_[i].loading
----------------------------------------------------------------------------
\* C18: in every state after abort has returned no texture is resident: no
\* resident flag, no bit in the residency bitmap, total texture memory zero
\* and the host handle table all zero, also when a loadTexture was running
\* on another thread when abort was called (runs in which an id beyond the
\* table was unloaded are left aside).
C18_NothingResidentAfterAbort ==
    abortPc = "done" /\ ~oob =>
        /\ \A i \in TexIds : ~textures_[i].resident /\ h_textures_[i] = 0
        /\ \A w \in Words : h_residentFlags_[w] = {}
        /\ totalMemoryUsage_ = 0


----------------------------------------------------------------------------
\* the tickets whose task body (event wait, filter, eviction, loads) has not
\* reached its end
BodyUnfinished == {k \in TicketIds : ticket[k] \in {"queued", "started", "running", "ending"}}

\* the step resets the pools or unloads the textures on behalf of abort or ~Impl
Teardown ==
    \/ pools = "alive" /\ pools' = "reset"
    \/ abortPc = "unloading" /\ abortPc' = "done"
    \/ dtorPc = "unloading" /\ dtorPc' = "done"

\* C19: abort and the destructor reset threadPool_, pinnedMemoryPool_ and
\* hipEventPool_ and unload the textures only after the in-flight counter was
\* seen at zero: at that step no ticket has an unfinished body, no call of
\* processRequestsAsync is past its checks, and whatever the counter holds
\* belongs to calls that return an empty ticket.
C19_Step ==
    /\ Teardown =>
           /\ BodyUnfinished = {}
           /\ ac # "commit"
           /\ inFlightAsync_ = (IF ac = "idle" THEN 0 ELSE 1)
    /\ abortPc = "waiting" /\ abortPc' # abortPc => inFlightAsync_ = 0
    /\ dtorPc = "waiting" /\ dtorPc' # dtorPc => inFlightAsync_ = 0
    /\ abortPc \in {"unloading", "done"} \/ dtorPc \in {"unloading", "done"}
           => BodyUnfinished = {} /\ ac # "commit"
C19_TeardownAfterDrain == [][C19_Step]_vars

\* abort has reset the pools after a ticket issued before it ran its loads
C19_Witness ==
    /\ abortPc = "unloading" /\ pools = "reset"
    /\ \E k \in TicketIds : ticket[k] \in {"returned", "done", "released"}
    /\ \E i \in TexIds : textures_[i].resident


----------------------------------------------------------------------------
\* C20: a ticket goes from Pending to Done once and never back: done_ is set
\* only after the ticket's task body has returned, Ticket::wait returns only
\* when it is set, and numTasksRemaining is 1 while the body is pending or
\* running and stays 0 once it is 0.
C20_Step ==
    \A k \in TicketIds :
        /\ done_(k) => done_(k)'
        /\ ~done_(k) /\ done_(k)' =>
               /\ ticket[k] = "returned"
               /\ ~(pr.active /\ pr.by = k)
        /\ lastOp' = Op("Ticket::wait", "", k, "") =>
               /\ done_(k)' /\ numTasksRemaining(k)' = 0
               /\ ~(pr'.active /\ pr'.by = k)
        /\ ticket[k] \in {"queued", "started", "running", "ending", "returned"}
               => numTasksRemaining(k) = 1
        /\ numTasksRemaining(k) = 0 => numTasksRemaining(k)' = 0
C20_TicketDoneOnce == [][C20_Step]_vars

\* a wait on a ticket has returned after the ticket's task loaded a texture
C20_Witness ==
    \E k \in TicketIds :
        /\ lastOp = Op("Ticket::wait", "", k, "")
        /\ done_(k)
        /\ \E i \in TexIds : textures_[i].resident
        /\ ~aborted_ /\ ~destroying_


----------------------------------------------------------------------------
(* Specification of waiting on tickets: callers of processRequestsAsync, the  *)
(* ticket worker, and threads that call Ticket::wait.  Threads that can run   *)
(* do run: the worker and every waiter inside wait take their next step.      *)

InitWait == InitWith({0}, {0}, {})

WaitCallerStep ==
    \/ async_enter
    \/ async_checkDestroying
    \/ async_checkAborted
    \/ \E stream \in CallerStreams : async_commit(stream)

WaitWorkerStep ==
    \/ worker_take
    \/ \E k \in TicketIds : worker_body(k, <<>>)
    \/ \E k \in TicketIds : worker_guard(k)
    \/ \E k \in TicketIds : worker_markDone(k)
    \/ \E k \in TicketIds : worker_notify(k)
    \/ \E k \in TicketIds : worker_release(k)

WaitEnter(w) ==
    \/ \E event \in BOOLEAN : wait_empty(w, event)
    \/ \E k \in TicketIds, event \in BOOLEAN : wait_lock(w, k, event)

WaitProgress(w) ==
    \/ wait_check(w)
    \/ wait_block(w)
    \/ wait_wake(w)

NextWait ==
    \/ WaitCallerStep
    \/ WaitWorkerStep
    \/ \E w \in Waiters : WaitEnter(w)
    \/ \E w \in Waiters : WaitProgress(w)

SpecWait ==
    /\ InitWait /\ [][NextWait]_vars
    /\ WF_vars(WaitWorkerStep)
    /\ \A w \in Waiters : WF_vars(WaitProgress(w))

\* waiter w is inside TicketImpl::wait
Waiting(w) == wt[w].pc \in {"check", "toBlock", "blocked", "woken"}

\* C21: whenever a thread is inside Ticket::wait and the worker has marked the
\* ticket done, the thread eventually returns from wait.
C21_WaitReturns ==
    \A w \in Waiters : (Waiting(w) /\ done_(wt[w].k)) ~> (wt[w].pc = "returned")


----------------------------------------------------------------------------
\* C22: a wait that was given an event records it exactly once, when it
\* returns (so after the ticket is Done), on the stream that was passed to
\* processRequestsAsync and never on requestCopyStream_; a wait without an
\* event, a wait on a default-constructed Ticket and a wait that has not
\* returned record nothing.
C22_EventRecordedOnRenderStream ==
    \A w \in Waiters :
        /\ wt[w].pc = "returned" /\ wt[w].event /\ wt[w].k # 0
               => /\ recorded[w] = <<tstream[wt[w].k]>>
                  /\ done_(wt[w].k)
        /\ wt[w].pc # "returned" \/ ~wt[w].event \/ wt[w].k = 0
               => recorded[w] = <<>>
        /\ \A n \in 1 .. Len(recorded[w]) : recorded[w][n] # requestCopyStream_


----------------------------------------------------------------------------
(* The asynchronous readback.  A render loop drives frames on one stream:  *)
(* launchPrepare, the kernel, processRequestsAsync; the stream, the copy   *)
(* stream and the ticket worker run on their own.                           *)

InitStream == InitWith({0}, {0}, {"ring"})

\* the kernel of frame f has been launched; processRequestsAsync has been
\* called for frame f
Launched(f) == kernelOut[f] # NoKernel
                  \/ \E i \in 1 .. Len(streamQ) :
                         streamQ[i].field = "kernel" /\ streamQ[i].frame = f
Requested(f) == \E k \in TicketIds : ticket[k] # NoTicket /\ pinned[k].frame = f

\* what the lanes of a kernel sample
KernelIds == {<<0>>, <<1, 0>>}

StreamPrepare ==
    /\ ac = "idle"
    /\ currentFrame_ = 0 \/ Requested(currentFrame_)
    /\ \E gpu \in GpuOutcomes : launchPrepare(gpu)
StreamLaunch ==
    /\ ac = "idle" /\ currentFrame_ > 0 /\ ~Launched(currentFrame_)
    /\ \E ids \in KernelIds : launchKernel(ids)
StreamAsync ==
    \/ Launched(currentFrame_) /\ ~Requested(currentFrame_) /\ async_enter
    \/ async_checkDestroying
    \/ async_checkAborted
    \/ async_commit(RenderStream)
RenderStep ==
    \/ StreamExecute
    \/ StreamMemset
    \/ StreamKernel_start
    \/ \E l \in Lanes : lane_tex2D(l)
    \/ \E l \in Lanes : lane_checkOverflow(l)
    \/ \E l \in Lanes : lane_atomicAdd(l)
    \/ \E l \in Lanes : lane_store(l)
    \/ StreamKernel_end
StreamStep == RenderStep \/ StreamRecord
CopyStep == CopyWait \/ CopyReadback \/ CopyRecord
StreamWorkerStep ==
    \/ worker_take
    \/ \E k \in TicketIds :
           worker_body(k, RequestsOf(pinned[k].count, pinned[k].requests))
    \/ \E k \in TicketIds : worker_hostReturn(k)
    \/ \E k \in TicketIds : worker_guard(k)
    \/ \E k \in TicketIds : worker_markDone(k)
    \/ \E k \in TicketIds : worker_notify(k)
    \/ \E k \in TicketIds : worker_release(k)

NextStream ==
    \/ StreamPrepare
    \/ StreamLaunch
    \/ StreamAsync
    \/ StreamStep
    \/ CopyStep
    \/ StreamWorkerStep

SpecStream == InitStream /\ [][NextStream]_vars

\* the ticket worker has passed hipEventSynchronize(copyDone) for ticket k
Synchronised(k) == ticket[k] \notin {NoTicket, "queued"}

\* C23: once the ticket worker has passed the copy-done event of a ticket, the
\* count, the overflow flag and the ring entries in the ticket's pinned
\* buffers are the ones left by the kernel that was enqueued on the render
\* stream before processRequestsAsync was called
C23_ReadbackSeesKernel ==
    \A k \in TicketIds :
        Synchronised(k) =>
            LET out == kernelOut[pinned[k].frame]
            IN /\ out # NoKernel
               /\ pinned[k].count = out.count
               /\ pinned[k].overflow = out.overflow
               /\ RequestsOf(pinned[k].count, pinned[k].requests)
                      = RequestsOf(out.count, out.requests)

\* the part of C23 in parentheses: the worker never reads the pinned buffers
\* before the copy-done event has completed
C23_WorkerAfterCopyDone ==
    \A k \in TicketIds : Synchronised(k) => copyDone(k) \in evDone


----------------------------------------------------------------------------
(* The request ring over synchronous frames: launchPrepare, a kernel whose  *)
(* lanes run recordTextureRequest interleaved, processRequests.             *)

InitRing == InitWith({0}, {0}, {"ring", "ops"})

\* the ids the lanes of a kernel sample: none, three distinct ones, a
\* repeated one, and MaxTextures, an id beyond the table
RingKernelIds == {<<>>, <<0, 1, 2>>, <<1, 1, 0>>, <<2, MaxTextures, 1>>}

RingCreate == currentFrame_ = 0 /\ streamQ = <<>> /\ Create
\* a frame begins when the previous one has had its processRequests, or
\* launchPrepare is tried again after a failure
RingPrepare ==
    /\ ~pr.active /\ streamQ = <<>>
    /\ \/ currentFrame_ = 0
       \/ lastOp.op = "processRequests"
       \/ lastOp.op = "launchPrepare" /\ lastOp.branch # "ok"
    /\ \E gpu \in GpuOutcomes : launchPrepare(gpu)
RingLaunch ==
    /\ currentFrame_ > 0 /\ ~Launched(currentFrame_)
    /\ \E ids \in RingKernelIds : launchKernel(ids)
RingRequest ==
    /\ Launched(currentFrame_)
    /\ processRequests(RequestsOf(d_requestStats_.count, d_requests), TRUE, TRUE)

NextRing ==
    \/ RingCreate
    \/ RingPrepare
    \/ RingLaunch
    \/ RenderStep
    \/ RingRequest
    \/ LoadClaim
    \/ Load
    \/ processRequests_return

SpecRing == InitRing /\ [][NextRing]_vars

\* the ids the lanes of a kernel appended
Appended(ids) == {ids[l] : l \in DOMAIN ids}

\* the ring at the end of the kernel of frame f
RingAtKernelEnd(f) ==
    LET out == kernelOut[f]
    IN out # NoKernel =>
           /\ (out.overflow = 1) <=> (out.count > MaxRequests)
           /\ out.overflow \in {0, 1}
           /\ \A slot \in Slots : slot < Min(out.count, MaxRequests) =>
                  out.requests[slot] \in Appended(out.ids)

\* two lanes never hold the same index, and a lane's store writes its id
\* into its own slot or sets overflow and writes nothing
OwnSlot ==
    \A l, m \in Lanes :
        l # m /\ lanes[l].pc = "store" /\ lanes[m].pc = "store" => lanes[l].idx # lanes[m].idx
C24_Store ==
    \A l \in Lanes :
        lanes[l].pc = "store" /\ lanes'[l].pc = "exit" =>
            IF lanes[l].idx < MaxRequests
            THEN /\ d_requests' = [d_requests EXCEPT ![lanes[l].idx] = lanes[l].texId]
                 /\ d_requestStats_' = d_requestStats_
            ELSE /\ d_requests' = d_requests
                 /\ d_requestStats_'.overflow = 1

\* what the host reports and schedules after processRequests
C24_Host ==
    lastOp'.op = "processRequests" /\ lastOp'.branch \in {"scheduled", "empty"} =>
        /\ lastRequestCount_' = d_requestStats_.count
        /\ lastRequestOverflow_' = (d_requestStats_.count > MaxRequests)
        /\ Cardinality(pr'.toLoad) <= MaxRequests

\* C24: for any interleaving of the appends of a frame, an append with
\* idx < capacity writes its id into its own slot and one with idx >= capacity
\* sets overflow and writes nothing; at kernel end overflow = 1 iff
\* count > capacity and the first min(count, capacity) slots hold ids appended
\* in this frame; the host reports the raw count, the overflow flag, and
\* loads at most capacity ids
C24_RingOverflow ==
    /\ [](OwnSlot /\ \A f \in 0 .. MaxFrame : RingAtKernelEnd(f))
    /\ [][C24_Store /\ C24_Host]_vars

\* capacity 2, three distinct appends: count 3, overflow, two loads scheduled
C24_Witness ==
    /\ lastRequestCount_ = 3 /\ lastRequestOverflow_
    /\ pr.active /\ Cardinality(pr.toLoad) = 2
    /\ kernelOut[currentFrame_].count = 3
    /\ Cardinality(Appended(kernelOut[currentFrame_].ids)) = 3


\* the entries of a ring that name allocated textures
AllocatedOnly(requests) == SelectSeq(requests, LAMBDA texId : texId < nextTextureId_)

\* the device path: a lane whose id is not allocated never reaches the append
DeviceDropsUnallocated ==
    \A l \in Lanes :
        lanes[l].pc \in {"record", "atomicAdd", "store"} => lanes[l].texId < nextTextureId_

\* the host path: processRequests schedules, estimates and evicts as if the
\* unallocated ids were not in the ring, and changes nothing when the ring
\* holds no other id
HostIgnoresUnallocated ==
    LET requests == RequestsOf(d_requestStats_.count, d_requests)
    IN lastOp'.op = "processRequests" /\ lastOp'.branch \in {"scheduled", "empty"} =>
           /\ scanRequests(requests, 1, NoScan)
                  = scanRequests(AllocatedOnly(requests), 1, NoScan)
           /\ pr'.toLoad \subseteq 0 .. (nextTextureId_ - 1)
           /\ AllocatedOnly(requests) = <<>> =>
                  /\ UNCHANGED <<textures_, mirrorVars, dirtyVars, totalMemoryUsage_>>
                  /\ pr'.toLoad = {}

\* C25: a request for an id >= the number of allocated textures never
\* mutates host state: the device sample path drops it by its bounds check
\* without appending it to the ring, and processRequests ignores such an id
\* if the ring holds one (no change of metadata, mirrors, dirty intervals or
\* total, no eviction on its behalf)
C25_UnallocatedRequestDropped ==
    /\ []DeviceDropsUnallocated
    /\ [][HostIgnoresUnallocated]_vars

\* the host half of C25 alone
C25_HostHalf == [][HostIgnoresUnallocated]_vars


\* the copies launchPrepare owes for the dirty intervals as they are now:
\* the range [begin, end] of each field whose interval is not empty
DirtyRanges ==
    (IF residentFlagsDirty_
     THEN <<[field |-> "residentFlags", begin |-> dirtyResidentWordBegin_,
             count |-> dirtyResidentWordEnd_ - dirtyResidentWordBegin_ + 1]>>
     ELSE <<>>)
    \o (IF texturesDirty_
        THEN <<[field |-> "textures", begin |-> dirtyTextureBegin_,
                count |-> dirtyTextureEnd_ - dirtyTextureBegin_ + 1]>>
        ELSE <<>>)

\* the copies of the mirrors a step adds to the stream
CopiesEnqueued ==
    SelectSeq(SubSeq(streamQ', Len(streamQ) + 1, Len(streamQ')),
              LAMBDA c : c.field \in {"residentFlags", "textures"})

C26_Step ==
    lastOp'.op = "launchPrepare" /\ lastOp'.branch \in {"ok", "memsetFails"} =>
        /\ CopiesEnqueued = DirtyRanges
        /\ lastOp.op = "processRequests" /\ lastOp.branch = "empty" =>
               CopiesEnqueued = <<>>

----------------------------------------------------------------------------
(* Budget eviction over two frames: flat textures of S2Side x S2Side, a     *)
(* budget that holds two of them, frame 1 requests {0, 1}, frame 2 requests *)
(* {2}.                                                                     *)

S2Budget == 2 * (S2Side * S2Side * 4)

InitS2 == InitWith({S2Budget}, {0}, {})

Resident == {i \in TexIds : textures_[i].resident}

S2Create ==
    /\ nextTextureId_ < MaxTextures
    /\ createTextureFromMemory(FALSE, S2Side, S2Side, 4, TextureDesc("Normal", FALSE, 0))
S2Prepare == ~pr.active /\ \E gpu \in GpuOutcomes : launchPrepare(gpu)
S2Frame1 ==
    /\ nextTextureId_ = MaxTextures /\ currentFrame_ = 1 /\ Resident = {}
    /\ processRequests(<<0, 1>>, TRUE, TRUE)
S2Frame2 ==
    /\ currentFrame_ = 2 /\ Resident = {0, 1}
    /\ processRequests(<<2>>, TRUE, TRUE)

NextS2 ==
    \/ S2Create
    \/ S2Prepare
    \/ StreamExecute
    \/ S2Frame1
    \/ S2Frame2
    \/ LoadClaim
    \/ Load
    \/ processRequests_return

SpecS2 == InitS2 /\ [][NextS2]_vars

\* the second frame's processRequests has returned with texture 2 loaded
S2Done == currentFrame_ = 2 /\ ~pr.active /\ textures_[2].resident

\* C27: after the frame that requests {0, 1} both are resident and the total
\* is 8192; after the next frame, which requests {2}, texture 1 is still
\* resident, texture 0 is evicted, texture 2 is resident and the total is 8192
C27_ScenarioS2 ==
    /\ (~pr.active /\ Resident = {0, 1}) => totalMemoryUsage_ = S2Budget
    /\ S2Done => /\ Resident = {1, 2}
                 /\ totalMemoryUsage_ = S2Budget

\* the first half of the scenario alone
C27_FirstFrame == (~pr.active /\ Resident = {0, 1}) => totalMemoryUsage_ = S2Budget


----------------------------------------------------------------------------
(* Memory accounting of one texture: any base size, flat or mipmapped, with *)
(* or without a maxMipLevel override; created, requested and loaded.        *)

MemSides == {1, 2, 3, 4, 8}
MemOverrides == {0, 1, 2}

InitMem == InitWith({0}, {0}, {})

MemCreate ==
    /\ nextTextureId_ = 0
    /\ \E width, height \in MemSides, mips \in BOOLEAN, maxMip \in MemOverrides :
           createTextureFromMemory(FALSE, width, height, 4,
                                   TextureDesc("Normal", mips, maxMip))
MemRequest == nextTextureId_ = 1 /\ processRequests(<<0>>, TRUE, TRUE)

NextMem ==
    \/ MemCreate
    \/ MemRequest
    \/ LoadClaim
    \/ Load
    \/ processRequests_return
    \/ UnloadValid

SpecMem == InitMem /\ [][NextMem]_vars

\* floor(log2(n)) for n >= 1
RECURSIVE Log2Floor(_)
Log2Floor(n) == IF n <= 1 THEN 0 ELSE 1 + Log2Floor(n \div 2)

\* the sum over k in [0, levels) of max(1, w / 2^k) * max(1, h / 2^k) * 4
RECURSIVE LevelSum(_, _, _)
LevelSum(w, h, levels) ==
    IF levels = 0 THEN 0
    ELSE LET k == levels - 1
         IN Max(1, w \div 2^k) * Max(1, h \div 2^k) * 4 + LevelSum(w, h, k)

\* the number of levels the texture is stated to have
StatedLevels(info) ==
    LET full == 1 + Log2Floor(Max(info.width, info.height))
    IN IF ~info.desc.generateMipmaps THEN 1
       ELSE IF info.desc.maxMipLevel # 0 THEN Min(info.desc.maxMipLevel, full)
       ELSE full

StatedMemory(info) == LevelSum(info.width, info.height, StatedLevels(info))

\* C28: the memoryUsage of a resident texture of base size w x h is the sum
\* of the byte counts of its levels, one level for a flat texture and
\* otherwise min(maxMipLevel if non-zero, 1 + floor(log2(max(w, h)))) levels,
\* and the size processRequests projects for the texture is the same number
C28_MemoryUsageFormula ==
    \A i \in TexIds :
        /\ textures_[i].resident => textures_[i].memoryUsage = StatedMemory(textures_[i])
        /\ i < nextTextureId_ => estimate(textures_[i]) = StatedMemory(textures_[i])

\* the cases in which the code's numbers agree with the stated sum: square
\* mipmapped textures without an override
SquareFullChain(info) ==
    info.width = info.height /\ info.desc.generateMipmaps /\ info.desc.maxMipLevel = 0
C28_SquareFullChain ==
    \A i \in TexIds :
        i < nextTextureId_ /\ SquareFullChain(textures_[i]) =>
            /\ textures_[i].resident => textures_[i].memoryUsage = StatedMemory(textures_[i])
            /\ estimate(textures_[i]) = StatedMemory(textures_[i])


\* the ids of a ring that are allocated and not resident
Wanted(requests) ==
    {texId \in {requests[i] : i \in DOMAIN requests} :
        texId < nextTextureId_ /\ ~textures_[texId].resident}

C29_Step ==
    LET requests == RequestsOf(d_requestStats_.count, d_requests)
        scan == scanRequests(requests, 1, NoScan)
    IN lastOp'.op = "processRequests" /\ lastOp'.branch = "scheduled" =>
           /\ pr'.toLoad = Wanted(requests)
           /\ {scan.toLoad[i] : i \in DOMAIN scan.toLoad} = Wanted(requests)
           /\ Len(scan.toLoad) = Cardinality(Wanted(requests))
           /\ scan.estimatedMemoryNeeded
                  = SumOver([i \in Wanted(requests) |-> estimate(textures_[i])],
                            Wanted(requests))

\* C29: within one processRequests call every distinct allocated id that is
\* not resident and appears in the first min(count, capacity) ring slots is
\* scheduled for load exactly once, however often it appears, and its
\* projected size is added to the estimate exactly once; resident ids are
\* neither scheduled nor counted
C29_DedupWithinCall == [][C29_Step]_vars

\* a ring that holds the same allocated id twice, scheduled once
C29_Witness ==
    /\ lastOp.op = "processRequests" /\ lastOp.branch = "scheduled"
    /\ d_requestStats_.count >= 2
    /\ d_requests[0] = d_requests[1]
    /\ pr.active /\ pr.toLoad = {d_requests[0]}

\* a ring whose ids are all resident by now: nothing scheduled
C29_WitnessResident ==
    /\ lastOp.op = "processRequests" /\ lastOp.branch = "scheduled"
    /\ d_requestStats_.count >= 2
    /\ textures_[d_requests[0]].resident /\ textures_[d_requests[1]].resident
    /\ pr.active /\ pr.toLoad = {}


\* the ids allocated for a path so far
PathIds(filename) ==
    {i \in TexIds : i < nextTextureId_ /\ textures_[i].filename = filename}

C30_Step ==
    (lastOp'.op = "createTexture(filename)" /\ PathIds(lastOp'.path) # {}) =>
        /\ nextTextureId_' = nextTextureId_
        /\ ret'.valid
        /\ ret'.id \in PathIds(lastOp'.path)

\* C30: createTexture(path) called again with a path that was created before
\* returns the id the first call returned and allocates nothing, whatever
\* was created in between, also paths or readers whose hash equals hash(path)
C30_PathDedup == [][C30_Step]_vars

\* another path with the same hash value has been created
Collided(filename) ==
    \E i \in TexIds :
        /\ i < nextTextureId_
        /\ textures_[i].filename \notin {"", filename}
        /\ StdHash(textures_[i].filename) = StdHash(filename)

\* path deduplication as long as no colliding path has been created
C30_NoCollidingPath ==
    [][~Collided(lastOp'.path) => C30_Step]_vars

----------------------------------------------------------------------------
(* PinnedMemoryPool: acquire, and release as run by ~BufferHandle.  Each      *)
(* action is one critical section of PinnedMemoryPool::mutex_ together with   *)
(* the hipHostMalloc or hipHostFree that follows it.                          *)

Buffers == 1 .. NumBuffers
PoolEntry(ptr, size) == [ptr |-> ptr, size |-> size]
BufferHandle(ptr, size) == [ptr |-> ptr, size |-> size]

UtilFrame ==
    UNCHANGED <<textures_, regVars, mirrorVars, dirtyVars, currentFrame_,
                totalMemoryUsage_, options_, lastError_, aborted_, devVars, ctlVars,
                envVars, ret, oob, observe, asyncVars, ld, snap, waitVars, statVars,
                ringVars>>

PoolFrame ==
    /\ UNCHANGED <<tpTasks_, activeWorkers_, stopping_, workers_, caller, executed>>
    /\ UtilFrame

\* std::vector::erase(it)
Erase(s, i) == [j \in 1 .. (Len(s) - 1) |-> IF j < i THEN s[j] ELSE s[j + 1]]

\* the loop of acquire: the position of the first entry that is large enough,
\* 0 if there is none
firstFit(pool, size) ==
    LET fits == {i \in DOMAIN pool : pool[i].size >= size}
    IN  IF fits = {} THEN 0 ELSE CHOOSE i \in fits : \A j \in fits : i <= j

\* acquire(size) finds a pooled buffer
acquire_pooled(size) ==
    LET it == firstFit(pool_, size)
    IN  /\ it # 0
        /\ pool_' = Erase(pool_, it)
        /\ handles' = handles \cup {BufferHandle(pool_[it].ptr, pool_[it].size)}
        /\ lastOp' = Op("acquire", "pooled", size, "")
        /\ UNCHANGED hostAllocs
        /\ PoolFrame

\* acquire(size) finds none: hipHostMalloc returns an address that is not in use
acquire_fresh(size, ptr) ==
    /\ firstFit(pool_, size) = 0
    /\ ptr \notin hostAllocs
    /\ hostAllocs' = hostAllocs \cup {ptr}
    /\ handles' = handles \cup {BufferHandle(ptr, size)}
    /\ lastOp' = Op("acquire", "fresh", size, "")
    /\ UNCHANGED pool_
    /\ PoolFrame

\* acquire(size) finds none and hipHostMalloc fails: an invalid handle
acquire_failed(size) ==
    /\ firstFit(pool_, size) = 0
    /\ lastOp' = Op("acquire", "failed", size, "")
    /\ UNCHANGED <<pool_, handles, hostAllocs>>
    /\ PoolFrame

\* ~BufferHandle of a valid handle: release(ptr_, size_)
release(h) ==
    /\ h \in handles
    /\ handles' = handles \ {h}
    /\ IF Len(pool_) >= MaxPooledBuffers
       THEN /\ hostAllocs' = hostAllocs \ {h.ptr}
            /\ lastOp' = Op("release", "freed", h.ptr, "")
            /\ UNCHANGED pool_
       ELSE /\ pool_' = Append(pool_, PoolEntry(h.ptr, h.size))
            /\ lastOp' = Op("release", "pooled", h.ptr, "")
            /\ UNCHANGED hostAllocs
    /\ PoolFrame

----------------------------------------------------------------------------
(* Specification of the pinned-buffer pool: threads acquire buffers of 1 to   *)
(* MaxBytes bytes and drop their handles in any order.                        *)

InitPool == InitWith({0}, {0}, {"ops"})

PoolAcquire ==
    \E size \in 1 .. MaxBytes :
        \/ acquire_pooled(size)
        \/ \E ptr \in Buffers : acquire_fresh(size, ptr)
        \/ acquire_failed(size)

PoolRelease == \E h \in handles : release(h)

NextPool == PoolAcquire \/ PoolRelease

SpecPool == InitPool /\ [][NextPool]_vars

\* the pooled buffers that are large enough for a request
Fits(size) == {i \in DOMAIN pool_ : pool_[i].size >= size}

\* the pool holds at most its cap of buffers
PoolWithinCap == Len(pool_) <= MaxPooledBuffers

\* a buffer is in one place: in the pool once, or in one live handle
OneOwner ==
    /\ \A i, j \in DOMAIN pool_ : pool_[i].ptr = pool_[j].ptr => i = j
    /\ \A g, h \in handles : g.ptr = h.ptr => g = h
    /\ \A i \in DOMAIN pool_ : \A h \in handles : pool_[i].ptr # h.ptr

\* C31: acquire(bytes) hands out a pooled buffer of minimal size among the
\* pooled buffers of size >= bytes, and allocates a fresh buffer only when no
\* pooled buffer is large enough; the pool never holds more than its cap of
\* buffers and no buffer is in two live handles.
C31_Step ==
    /\ lastOp'.op = "acquire" =>
           LET size == lastOp'.arg
           IN  IF Fits(size) # {}
               THEN \E i \in Fits(size) :
                        /\ \A j \in Fits(size) : pool_[i].size <= pool_[j].size
                        /\ handles' = handles \cup {BufferHandle(pool_[i].ptr, pool_[i].size)}
                        /\ pool_' = Erase(pool_, i)
                        /\ hostAllocs' = hostAllocs
               ELSE /\ pool_' = pool_
                    /\ \/ handles' = handles /\ hostAllocs' = hostAllocs
                       \/ \E ptr \in Buffers \ hostAllocs :
                              /\ handles' = handles \cup {BufferHandle(ptr, size)}
                              /\ hostAllocs' = hostAllocs \cup {ptr}
    /\ PoolWithinCap'
    /\ OneOwner'
C31_AcquireSmallest == [][C31_Step]_vars

\* what acquire does: it hands out the first pooled buffer, in the order of
\* release, that is large enough
C31_FirstFitStep ==
    lastOp'.op = "acquire" /\ Fits(lastOp'.arg) # {} =>
        LET i == firstFit(pool_, lastOp'.arg)
        IN  /\ handles' = handles \cup {BufferHandle(pool_[i].ptr, pool_[i].size)}
            /\ pool_' = Erase(pool_, i)
C31_AcquireFirstFit == [][C31_FirstFitStep]_vars

\* the other two parts of C31
C31_CapAndOwner == PoolWithinCap /\ OneOwner

----------------------------------------------------------------------------
(* ThreadPool.  An action is one critical section of ThreadPool::mutex_, one  *)
(* notify, or the task body.  A thread inside cv_.wait or                     *)
(* completionCv_.wait is in the wait set of the condition variable (pc        *)
(* "blocked") from the moment its predicate was false under the mutex until   *)
(* a notify takes it out; there are no spurious wakeups.                      *)

ThreadFrame ==
    /\ UNCHANGED <<pool_, handles, hostAllocs, lastOp>>
    /\ UtilFrame

\* the predicate of completionCv_.wait in waitAll
waitAllReady_queueOnly(tasks, active) == tasks = <<>>

waitAllReady(tasks, active) == tasks = <<>> /\ active = 0

\* the predicate of cv_.wait in workerLoop
workerWakes(stopping, tasks) == stopping \/ tasks # <<>>

\* workerLoop returns
workerExits_onStop(stopping, tasks) == stopping

workerExits(stopping, tasks) == stopping /\ tasks = <<>>

\* submit: push under the mutex
submit_push ==
    /\ caller.pc = "idle"
    /\ caller.next <= NumTasks
    /\ tpTasks_' = Append(tpTasks_, caller.next)
    /\ caller' = [caller EXCEPT !.pc = "notify", !.next = @ + 1]
    /\ UNCHANGED <<activeWorkers_, stopping_, workers_, executed>>
    /\ ThreadFrame

\* a worker in the wait set of cv_
Blocked == {w \in Workers : workers_[w].pc = "blocked"}

\* submit: cv_.notify_one() takes one worker out of the wait set, if there is one
submit_notify ==
    /\ caller.pc = "notify"
    /\ caller' = [caller EXCEPT !.pc = "idle"]
    /\ IF Blocked = {}
       THEN UNCHANGED workers_
       ELSE \E w \in Blocked : workers_' = [workers_ EXCEPT ![w].pc = "start"]
    /\ UNCHANGED <<tpTasks_, activeWorkers_, stopping_, executed>>
    /\ ThreadFrame

\* waitAll: the predicate is evaluated under the mutex, on entry and after
\* every wakeup; the thread blocks if it is false
waitAll_check ==
    /\ caller.pc \in {"idle", "waitWoken"}
    /\ caller' = IF waitAllReady(tpTasks_, activeWorkers_)
                 THEN [caller EXCEPT !.pc = "waitDone"]
                 ELSE [caller EXCEPT !.pc = "waitBlocked", !.slept = TRUE]
    /\ UNCHANGED <<tpTasks_, activeWorkers_, stopping_, workers_, executed>>
    /\ ThreadFrame

\* waitAll has returned to the caller
waitAll_return ==
    /\ caller.pc = "waitDone"
    /\ caller' = [caller EXCEPT !.pc = "idle", !.slept = FALSE]
    /\ UNCHANGED <<tpTasks_, activeWorkers_, stopping_, workers_, executed>>
    /\ ThreadFrame

\* workerLoop: cv_.wait, the exit test, and the pop
workerLoop_wait(w) ==
    /\ workers_[w].pc = "start"
    /\ IF ~workerWakes(stopping_, tpTasks_)
       THEN /\ workers_' = [workers_ EXCEPT ![w].pc = "blocked"]
            /\ UNCHANGED <<tpTasks_, activeWorkers_>>
       ELSE IF workerExits(stopping_, tpTasks_)
       THEN /\ workers_' = [workers_ EXCEPT ![w].pc = "exited"]
            /\ UNCHANGED <<tpTasks_, activeWorkers_>>
       ELSE \* with the mutant exit test the queue can be non-empty here
            /\ tpTasks_ # <<>>
            /\ workers_' = [workers_ EXCEPT ![w] = [pc |-> "run", task |-> Head(tpTasks_)]]
            /\ tpTasks_' = Tail(tpTasks_)
            /\ activeWorkers_' = activeWorkers_ + 1
    /\ UNCHANGED <<stopping_, caller, executed>>
    /\ ThreadFrame

\* task(): the task body runs to its end
workerLoop_task(w) ==
    /\ workers_[w].pc = "run"
    /\ executed' = [executed EXCEPT ![workers_[w].task] = @ + 1]
    /\ workers_' = [workers_ EXCEPT ![w].pc = "dec"]
    /\ UNCHANGED <<tpTasks_, activeWorkers_, stopping_, caller>>
    /\ ThreadFrame

\* --activeWorkers_ under the mutex
workerLoop_dec(w) ==
    /\ workers_[w].pc = "dec"
    /\ activeWorkers_' = activeWorkers_ - 1
    /\ workers_' = [workers_ EXCEPT ![w].pc = "notify"]
    /\ UNCHANGED <<tpTasks_, stopping_, caller, executed>>
    /\ ThreadFrame

\* completionCv_.notify_all(), then back to the top of the loop
workerLoop_notify(w) ==
    /\ workers_[w].pc = "notify"
    /\ workers_' = [workers_ EXCEPT ![w] = NoWorker]
    /\ caller' = IF caller.pc = "waitBlocked" THEN [caller EXCEPT !.pc = "waitWoken"]
                 ELSE caller
    /\ UNCHANGED <<tpTasks_, activeWorkers_, stopping_, executed>>
    /\ ThreadFrame

\* ~ThreadPool: stopping_ = true under the mutex
dtor_stop ==
    /\ caller.pc = "idle"
    /\ stopping_' = TRUE
    /\ caller' = [caller EXCEPT !.pc = "dtorNotify"]
    /\ UNCHANGED <<tpTasks_, activeWorkers_, workers_, executed>>
    /\ ThreadFrame

\* ~ThreadPool: cv_.notify_all()
dtor_notify ==
    /\ caller.pc = "dtorNotify"
    /\ workers_' = [w \in Workers |->
                        IF w \in Blocked THEN [workers_[w] EXCEPT !.pc = "start"]
                        ELSE workers_[w]]
    /\ caller' = [caller EXCEPT !.pc = "join"]
    /\ UNCHANGED <<tpTasks_, activeWorkers_, stopping_, executed>>
    /\ ThreadFrame

\* ~ThreadPool: every worker.join() has returned
dtor_join ==
    /\ caller.pc = "join"
    /\ \A w \in Workers : workers_[w].pc = "exited"
    /\ caller' = [caller EXCEPT !.pc = "gone"]
    /\ UNCHANGED <<tpTasks_, activeWorkers_, stopping_, workers_, executed>>
    /\ ThreadFrame

----------------------------------------------------------------------------
(* Specification of the thread pool: the owner submits up to NumTasks tasks,  *)
(* calls waitAll at any point between two submits, and destroys the pool at   *)
(* any point; the workers run.  SpecThreadsLive adds that a worker thread     *)
(* that can take a step takes one, and that the owner finishes the call it   *)
(* is in (it need not begin another one).                                    *)

InitThreads == InitWith({0}, {0}, {})

ThreadOwnerStep ==
    \/ submit_push
    \/ submit_notify
    \/ waitAll_check
    \/ waitAll_return
    \/ dtor_stop
    \/ dtor_notify
    \/ dtor_join

ThreadWorkerStep(w) ==
    \/ workerLoop_wait(w)
    \/ workerLoop_task(w)
    \/ workerLoop_dec(w)
    \/ workerLoop_notify(w)

NextThreads == ThreadOwnerStep \/ \E w \in Workers : ThreadWorkerStep(w)

SpecThreads == InitThreads /\ [][NextThreads]_vars

SpecThreadsLive ==
    /\ SpecThreads
    /\ \A w \in Workers : WF_vars(ThreadWorkerStep(w))
    /\ WF_vars(submit_notify)
    /\ WF_vars(caller.pc = "waitWoken" /\ waitAll_check)
    /\ WF_vars(dtor_notify)
    /\ WF_vars(dtor_join)

\* the tasks the owner has submitted
Submitted == 1 .. (caller.next - 1)
\* a worker is between the pop of a task and the decrement after it
Executing(w) == workers_[w].pc \in {"run", "dec"}
InWaitAll == caller.pc \in {"waitBlocked", "waitWoken"}

\* C32: waitAll returns only in a state where the queue is empty and no worker
\* is executing a task, so that every task submitted before it has finished;
\* and a thread inside waitAll eventually returns from it.
C32_WaitAllBarrier ==
    /\ [](caller.pc = "waitDone" =>
              /\ tpTasks_ = <<>>
              /\ \A w \in Workers : ~Executing(w)
              /\ \A t \in Submitted : executed[t] = 1)
    /\ (InWaitAll ~> caller.pc = "waitDone")

\* waitAll has returned after the caller slept in it, with every task run
C32_Witness ==
    /\ caller.pc = "waitDone"
    /\ caller.slept
    /\ caller.next = NumTasks + 1
    /\ \A t \in Tasks : executed[t] = 1

\* C33: a task is run exactly once, by one worker: it is never run twice and
\* never held by two workers, a submitted task is eventually run, and the
\* destructor returns only after every queued task has run to completion.
C33_TasksRunOnce ==
    /\ [](/\ \A t \in Tasks : executed[t] <= 1
          /\ \A t \in Tasks \ Submitted : executed[t] = 0
          /\ \A v, w \in Workers :
                 Executing(v) /\ Executing(w) /\ workers_[v].task = workers_[w].task => v = w
          /\ caller.pc = "gone" => \A t \in Submitted : executed[t] = 1)
    /\ \A t \in Tasks : (t \in Submitted ~> executed[t] = 1)

\* the pool was destroyed with tasks in the queue, and they ran
C33_Witness ==
    /\ caller.pc = "gone"
    /\ caller.next = NumTasks + 1
    /\ \A t \in Tasks : executed[t] = 1
    /\ ~caller.slept

----------------------------------------------------------------------------
(* Specification of three frames under a budget of one texture.  Frame 1     *)
(* samples texture 0 and loads it with processRequests; frame 2 samples       *)
(* textures 0 and 1 and calls processRequestsAsync; the caller does not wait  *)
(* for the ticket: it calls launchPrepare and launches the kernel of frame 3, *)
(* which samples texture 0, while the copy stream and the ticket worker run.  *)

InitSample == InitWith({Budget}, {0}, {"ring", "frames"})

SampleIds(frame) == IF frame = 2 THEN <<0, 1>> ELSE <<0>>

SampleCreate == currentFrame_ = 0 /\ nextTextureId_ < 2 /\ streamQ = <<>> /\ Create
SamplePrepare ==
    /\ ~pr.active /\ ac = "idle"
    /\ \/ currentFrame_ = 0 /\ nextTextureId_ = 2
       \/ currentFrame_ = 1 /\ textures_[0].resident
       \/ currentFrame_ = 2 /\ Requested(2)
    /\ launchPrepare("ok")
SampleLaunch ==
    /\ ac = "idle" /\ currentFrame_ > 0 /\ ~Launched(currentFrame_)
    /\ launchKernel(SampleIds(currentFrame_))
SampleRequest ==
    /\ currentFrame_ = 1 /\ Launched(1) /\ ~textures_[0].resident
    /\ processRequests(RequestsOf(d_requestStats_.count, d_requests), TRUE, TRUE)
SampleAsync ==
    \/ currentFrame_ = 2 /\ Launched(2) /\ ~Requested(2) /\ async_enter
    \/ async_checkDestroying
    \/ async_checkAborted
    \/ async_commit(RenderStream)

NextSample ==
    \/ SampleCreate
    \/ SamplePrepare
    \/ SampleLaunch
    \/ SampleRequest
    \/ SampleAsync
    \/ StreamStep
    \/ CopyStep
    \/ StreamWorkerStep
    \/ LoadClaim
    \/ Load
    \/ processRequests_return

SpecSample == InitSample /\ [][NextSample]_vars

\* the ids the device sees as resident
DeviceResident == {texId \in TexIds : isTextureResident(texId)}

\* C34: while a kernel runs, the texture object the device handle table holds
\* for an id whose device residency bit is set is alive.  (A handle value that
\* hipCreateTextureObject has handed out again counts as alive here.)
C34_NoDestroyedTextureSampled ==
    kernelRunning => \A texId \in DeviceResident : d_textures[texId] \in LiveObjs

\* the same for the kernels of frames 1 and 2, which run when the request
\* processing of the frame before them has returned
C34_AfterCompletedProcessing ==
    kernelRunning /\ currentFrame_ < 3 =>
        \A texId \in DeviceResident : d_textures[texId] \in LiveObjs

----------------------------------------------------------------------------
\* C35: when the readback of a ticket has completed, the count and the
\* overflow flag in the ticket's pinned buffers are the ones the kernel of the
\* frame for which processRequestsAsync was called left behind, also when
\* launchPrepare was called for the next frame before the readback executed.
C35_ReadbackBeforeReset ==
    \A k \in TicketIds :
        copyDone(k) \in evDone =>
            /\ pinned[k].count = kernelOut[pinned[k].frame].count
            /\ pinned[k].overflow = kernelOut[pinned[k].frame].overflow

\* the next frame's launchPrepare has been called and has its memset on the
\* render stream while a readback of the frame before is still to execute
ResetBeforeReadback ==
    \E k \in TicketIds :
        /\ pinned[k].frame < currentFrame_
        /\ \E i \in DOMAIN copyQ : copyQ[i].field = "count" /\ copyQ[i].k = k

\* the same when no launchPrepare is called between processRequestsAsync and
\* the end of the readback
C35_WithoutEarlyPrepare ==
    \A k \in TicketIds :
        copyDone(k) \in evDone /\ pinned[k].frame = currentFrame_ =>
            /\ pinned[k].count = kernelOut[pinned[k].frame].count
            /\ pinned[k].overflow = kernelOut[pinned[k].frame].overflow

----------------------------------------------------------------------------
\* C36: the pinned buffers an async ticket's task holds go back to
\* pinnedMemoryPool_ while the pool exists: they are released before the
\* decrement of inFlightAsync_ that lets abort or the destructor reset the
\* pool.
C36_Step ==
    \A k \in TicketIds :
        ticket[k] = "notified" /\ ticket'[k] = "released" => pools = "alive"
C36_BuffersReleasedBeforeTeardown == [][C36_Step]_vars

\* what holds: until the decrement the pool exists
C36_PoolAliveUntilDecrement ==
    \A k \in TicketIds :
        ticket[k] \in {"started", "running", "ending"} => pools = "alive"

----------------------------------------------------------------------------
(* The in-flight counter and asyncCv_, instruction by instruction.  A guard   *)
(* (~AsyncGuard of a call that returns early, ~InFlightGuard at the end of a  *)
(* task) is two steps: fetch_sub without a lock, then notify_all under        *)
(* asyncMutex_.  abort and ~Impl evaluate the predicate of asyncCv_.wait      *)
(* under asyncMutex_ and are in the wait set (pc "blocked") from the moment   *)
(* it was false until a notify_all; there are no spurious wakeups.  A ticket  *)
(* is at "subbed" between the two steps of its guard, a call at "notify".     *)

DrainFrame ==
    UNCHANGED <<textures_, regVars, mirrorVars, dirtyVars, currentFrame_,
                totalMemoryUsage_, options_, lastError_, aborted_, devVars, pr, envVars,
                destroying_, pools, tasks_, ld, snap, waitVars, statVars, ringVars,
                utilVars>>

\* asyncCv_.notify_all() as seen by a thread whose position is pc
asyncCv_notify_none(pc) == pc

asyncCv_notify_all(pc) == IF pc = "blocked" THEN "woken" ELSE pc

\* asyncCv_.wait(lock, [&] { return inFlightAsync_ == 0; }) in abort
abortWait_check ==
    /\ abortPc \in {"waiting", "woken"}
    /\ abortPc' = IF inFlightAsync_ = 0 THEN "pools" ELSE "blocked"
    /\ Obs("abort", "wait", 0)
    /\ UNCHANGED <<inFlightAsync_, ac, ticket, dtorPc, oob>>
    /\ DrainFrame

\* the same in ~Impl
dtorWait_check ==
    /\ dtorPc \in {"waiting", "woken"}
    /\ dtorPc' = IF inFlightAsync_ = 0 THEN "pools" ELSE "blocked"
    /\ Obs("~Impl", "wait", 0)
    /\ UNCHANGED <<inFlightAsync_, ac, ticket, abortPc, oob>>
    /\ DrainFrame

\* ~AsyncGuard of a call that is not committed: fetch_sub(1)
asyncGuard_sub ==
    /\ ac = "guard"
    /\ inFlightAsync_' = inFlightAsync_ - 1
    /\ ac' = "notify"
    /\ Obs("processRequestsAsync", "empty", 0)
    /\ UNCHANGED <<ticket, abortPc, dtorPc, oob>>
    /\ DrainFrame

\* ~AsyncGuard: lock asyncMutex_, notify_all.  The mutex is a member of the
\* loader: it is gone when ~Impl has returned.
asyncGuard_notify ==
    /\ ac = "notify"
    /\ ac' = "idle"
    /\ abortPc' = asyncCv_notify_all(abortPc)
    /\ dtorPc' = asyncCv_notify_all(dtorPc)
    /\ oob' = (oob \/ dtorPc = "done")
    /\ Obs("processRequestsAsync", "notify", 0)
    /\ UNCHANGED <<inFlightAsync_, ticket>>
    /\ DrainFrame

\* ~InFlightGuard at the end of the task body: fetch_sub(1)
inFlightGuard_sub(k) ==
    /\ ticket[k] = "ending"
    /\ inFlightAsync_' = inFlightAsync_ - 1
    /\ ticket' = [ticket EXCEPT ![k] = "subbed"]
    /\ Obs("TicketWorker", "guard", k)
    /\ UNCHANGED <<ac, abortPc, dtorPc, oob>>
    /\ DrainFrame

\* ~InFlightGuard: lock asyncMutex_, notify_all
inFlightGuard_notify(k) ==
    /\ ticket[k] = "subbed"
    /\ ticket' = [ticket EXCEPT ![k] = "returned"]
    /\ abortPc' = asyncCv_notify_all(abortPc)
    /\ dtorPc' = asyncCv_notify_all(dtorPc)
    /\ oob' = (oob \/ dtorPc = "done")
    /\ Obs("TicketWorker", "notify", k)
    /\ UNCHANGED <<inFlightAsync_, ac>>
    /\ DrainFrame

----------------------------------------------------------------------------
(* Specification of the drain: processRequestsAsync calls, the ticket worker, *)
(* abort and ~Impl, with the guards and the waits instruction by instruction. *)
(* SpecDrainLive adds that the ticket worker keeps running queued tasks, that *)
(* loads come to an end, and that a thread finishes the call it is in.        *)

InitDrain == InitWith({0}, {0}, {})

DrainCreate == nextTextureId_ < 1 /\ dtorPc = "idle" /\ Create

DrainCall ==
    \/ async_enter
    \/ async_checkDestroying
    \/ async_checkAborted
    \/ async_commit(RenderStream)
    \/ asyncGuard_sub
    \/ asyncGuard_notify

DrainWorker ==
    \/ worker_take
    \/ \E k \in TicketIds, requests \in {<<>>, <<0>>} : worker_body(k, requests)
    \/ \E k \in TicketIds : worker_hostReturn(k)
    \/ \E k \in TicketIds : inFlightGuard_sub(k)
    \/ \E k \in TicketIds : inFlightGuard_notify(k)
    \/ \E k \in TicketIds : worker_markDone(k)
    \/ \E k \in TicketIds : worker_notify(k)
    \/ \E k \in TicketIds : worker_release(k)

DrainLoad == LoadClaim \/ Load

DrainAbort ==
    \/ (dtorPc = "idle" /\ abort_flag)
    \/ abortWait_check
    \/ abort_pools
    \/ abort_unload(TRUE)

DrainDtor ==
    \/ (abortPc \in {"idle", "done"} /\ dtor_flag)
    \/ dtorWait_check
    \/ dtor_pools
    \/ dtor_unload

NextDrain ==
    \/ DrainCreate
    \/ DrainCall
    \/ DrainWorker
    \/ DrainLoad
    \/ DrainAbort
    \/ DrainDtor

SpecDrain == InitDrain /\ [][NextDrain]_vars

SpecDrainLive ==
    /\ SpecDrain
    /\ WF_vars(DrainWorker)
    /\ WF_vars(DrainLoad)
    /\ WF_vars(ac # "idle" /\ DrainCall)
    /\ WF_vars(abortPc # "idle" /\ DrainAbort)
    /\ WF_vars(dtorPc # "idle" /\ DrainDtor)

\* the calls that have incremented the counter and not yet decremented it
CounterHeldBy ==
    (IF ac \in {"checkDestroying", "checkAborted", "commit", "guard"} THEN 1 ELSE 0)
    + Cardinality({k \in TicketIds :
                       ticket[k] \in {"queued", "started", "running", "ending"}})

\* the caller threads make no more processRequestsAsync calls from some point on
CallsCease == <>[](ac = "idle")

\* C37: inFlightAsync_ is the number of processRequestsAsync calls that have
\* incremented it and whose one decrement (early return, or end of the
\* ticket's task) is still to come, so it is never negative; an abort or a
\* destructor that sleeps in its wait is woken; and, the calls being finitely
\* many, abort and the destructor run to their end.
C37_DrainTerminates ==
    /\ [](inFlightAsync_ = CounterHeldBy /\ inFlightAsync_ >= 0)
    /\ (abortPc = "blocked" ~> abortPc = "woken")
    /\ (dtorPc = "blocked" ~> dtorPc = "woken")
    /\ (CallsCease => (abortPc = "waiting" ~> abortPc = "done"))
    /\ (CallsCease => (dtorPc = "waiting" ~> dtorPc = "done"))

\* C37 as stated, without the condition on the calls: the counter is kept
\* exactly and every abort and every destructor that waits runs to its end.
C37_AlwaysTerminates ==
    /\ [](inFlightAsync_ = CounterHeldBy /\ inFlightAsync_ >= 0)
    /\ (abortPc = "waiting" ~> abortPc = "done")
    /\ (dtorPc = "waiting" ~> dtorPc = "done")

\* an abort that slept in asyncCv_.wait has been woken by the guard of a task
\* that brought the counter to zero
C37_Witness ==
    /\ abortPc = "woken"
    /\ inFlightAsync_ = 0
    /\ \E k \in TicketIds : ticket[k] = "returned"

----------------------------------------------------------------------------
\* a step in which a loadTexture call takes the loading claim of texture i: it
\* reads info.channels and info.cachedData under the same lock
ClaimsLoad(i) == ~textures_[i].loading /\ textures_'[i].loading

\* C38: a load of an in-memory texture, the first one and every reload after
\* an eviction or an unload, reads the retained pixel copy with the channel
\* count the texture was created with.
C38_Step ==
    \A i \in TexIds :
        ClaimsLoad(i) /\ textures_[i].cachedData # 0 =>
            textures_[i].channels = textures_[i].cachedData
C38_RetainedCopyChannels == [][C38_Step]_vars

\* the loads of a texture that was never published do so
C38_FirstLoadStep ==
    \A i \in TexIds :
        ClaimsLoad(i) /\ textures_[i].cachedData # 0 /\ ~wasLoaded(i) =>
            textures_[i].channels = textures_[i].cachedData
C38_FirstLoad == [][C38_FirstLoadStep]_vars


----------------------------------------------------------------------------
(* Path textures and reader textures share filenameHashToTextureId_: the     *)
(* path's std::hash value and the reader's getHash(0) value are keys of the   *)
(* same map.                                                                  *)

\* the creation just made returned an id that was allocated before it
ReturnsExistingId ==
    lastOp'.op \in CreateOps /\ ret'.valid /\ ret'.id < nextTextureId_

C39_Step ==
    ReturnsExistingId =>
        LET t == textures_[ret'.id] IN
        CASE lastOp'.op = "createTexture(filename)" -> t.filename # ""
          [] lastOp'.op = "createTexture(imageSource)" -> t.imageSource # 0
          [] OTHER -> FALSE

\* C39: sources of different kinds get distinct ids: a reader creation is
\* never answered with the id of a texture registered from a path (also when
\* the reader's content hash equals the hash of that path), a path creation
\* never with the id of a texture registered from a reader, and a creation
\* from memory never with an id allocated before
C39_DistinctSourcesDistinctIds == [][C39_Step]_vars

\* a creation from memory always allocates
C39_MemoryStep ==
    (ReturnsExistingId /\ lastOp'.op = "createTextureFromMemory") => FALSE

C39_MemoryAlwaysAllocates == [][C39_MemoryStep]_vars


----------------------------------------------------------------------------
(* unloadTexture of ids that name no resident texture: registrations, loads    *)
(* and unloads of every id of the table and of one id beyond it, with the     *)
(* operations observed.                                                       *)

InitUnload == InitWith({Budget}, {0}, {"ops"})

NextUnload ==
    \/ Create
    \/ Request
    \/ LoadClaim
    \/ Load
    \/ processRequests_return
    \/ UnloadValid
    \/ UnloadBeyond

SpecUnload == InitUnload /\ [][NextUnload]_vars

\* the textures whose metadata the step changes
Touched == {i \in TexIds : textures_'[i] # textures_[i]}

\* the host state outside textures_ that destroyTexture works on
HostTablesUnchanged ==
    UNCHANGED <<mirrorVars, dirtyVars, totalMemoryUsage_>>

\* what an unloadTexture step may do: nothing at all, or make one resident
\* texture non-resident, clear that texture's handle and residency bit and
\* take its size off the total
UnloadEffect ==
    /\ Cardinality(Touched) <= 1
    /\ Touched = {} => HostTablesUnchanged
    /\ \A i \in Touched :
          /\ textures_[i].resident /\ ~textures_'[i].resident
          /\ h_textures_' = [h_textures_ EXCEPT ![i] = 0]
          /\ h_residentFlags_' =
                 [h_residentFlags_ EXCEPT ![i \div WordBits] = @ \ {i % WordBits}]
          /\ totalMemoryUsage_' = SizeT(totalMemoryUsage_ - textures_[i].memoryUsage)

C40_Step ==
    lastOp'.op = "unloadTexture" =>
        /\ oob' = oob
        /\ UnloadEffect

\* C40: unloadTexture(id) with an id that names no resident texture changes no
\* residency state, mirror, dirty interval or memory total and reads or writes
\* no slot outside textures_[0 .. maxTextures); with a resident id it changes
\* that texture's state only
C40_UnloadNoOpOrOneTexture == [][C40_Step]_vars

\* the same for ids below maxTextures
C40_InRange ==
    [][lastOp'.op = "unloadTexture" /\ oob' = oob => UnloadEffect]_vars

====
